---- MODULE Spec2Model ----
(***************************************************************************)
(* Model of the crawl orchestrator of crawl4ai-service.py:                 *)
(*   AdvancedCrawlService.get_crawler, crawl_url (retry loop),             *)
(*   discover_sitemap, deep_crawl_stream (the event generator) and         *)
(*   detect_pagination.                                                    *)
(* One crawl run is the async generator deep_crawl_stream; its position is *)
(* pc, and every yield appends one record to events.                       *)
(***************************************************************************)
EXTENDS Integers, Sequences, FiniteSets, TLC

\* ------------------------------------------------------------------ bounds
MaxBudget == 2       \* request.max_urls ranges over 0..MaxBudget
MaxDepthBound == 1   \* request.max_depth ranges over 0..MaxDepthBound
MaxLinks == 1        \* anchors per fetched page
MaxSitemap == 1      \* <loc> entries of a fetched sitemap.xml
MaxNumbered == 2     \* anchors with a number as text on a page given to the detector
MaxParents == 4      \* elements around an anchor, the document included
MaxCallers == 3      \* tasks calling get_crawler side by side

\* ------------------------------------------------------------------- URLs
\* A URL is <<netloc, path>>; an href without netloc is relative.
SeedHost == "example.test"
OtherHost == "other.test"
Seed == <<SeedHost, "/">>
\* the URLs of the modelled web: the seed, a second page of the seed's host
\* and a page of another host
Urls == {Seed, <<SeedHost, "/page">>, <<OtherHost, "/">>}
NoUrl == <<"", "">>              \* None / missing href

Netloc(u) == u[1]

\* urllib.parse.urljoin: an absolute href replaces the base, a relative one
\* keeps the base's netloc.
urljoin(base, href) == IF href[1] = "" THEN <<base[1], href[2]>> ELSE href

\* an href whose netloc has an unbalanced bracket: urlsplit, and with it
\* urljoin, raises ValueError("Invalid IPv6 URL")
BadHref == <<"[::1", "/">>

urljoin_raises(href) == href = BadHref

\* --------------------------------------------------------- error messages
\* A (lower-cased) error message is a sequence of word tokens.
Messages ==
    { <<"rate", "limit", "retry", "after", "2", "seconds">>,
      <<"429", "too", "many", "requests">>,
      <<"429", "retry", "in", "3", "seconds">>,
      <<"retry", "in", "3", "seconds">>,
      <<"connection", "refused">>,
      <<>> }

Keywords_retry ==
    { <<"rate", "limit">>, <<"retry">>, <<"too", "many", "requests">>, <<"429">> }

\* the keyword list of the rate-limit check
Keywords ==
    { <<"rate", "limit">>, <<"retry", "after">>, <<"too", "many", "requests">>, <<"429">> }

\* Python's `keyword in error_msg`
Contains(msg, kw) ==
    \E i \in 1..(Len(msg) - Len(kw) + 1) : SubSeq(msg, i, i + Len(kw) - 1) = kw

IsRateLimited(msg) == \E kw \in Keywords : Contains(msg, kw)

\* ---- the wait encoded in a message:
\* re.search(r'retry\s+(?:after|in)\s+(\d+)\s*(?:seconds?|s)', error_msg)
MaxSeconds == 3      \* number tokens are "0".."3"
MaxDelay == 2        \* the "delay" of an extraction schema ranges over 0..MaxDelay (ms)
MaxDuration == 2     \* a pass of crawl_url takes 0..MaxDuration ms
MaxAnchors == 23     \* anchors of a page of many links (more than the per-page cap)

\* `\d+`: the token is a decimal number
IsNumber(tok) == \E n \in 0..MaxSeconds : ToString(n) = tok
\* int(retry_match.group(1))
int(tok) == CHOOSE n \in 0..MaxSeconds : ToString(n) = tok

\* `(?:seconds?|s)` matches the start of any word that begins with "s"
SWords == {"seconds", "second", "secs", "s"}

\* positions where the pattern matches
RetryMatches(msg) ==
    {i \in 1..(Len(msg) - 3) :
        /\ msg[i] = "retry"
        /\ msg[i + 1] \in {"after", "in"}
        /\ IsNumber(msg[i + 2])
        /\ msg[i + 3] \in SWords}

DelaySeconds_default(msg) == 1

\* delay_seconds: 1 by default, the number of the leftmost match otherwise
DelaySeconds(msg) ==
    IF RetryMatches(msg) = {} THEN 1
    ELSE int(msg[(CHOOSE i \in RetryMatches(msg) : \A j \in RetryMatches(msg) : i <= j) + 2])

max_retries == 3

RetryAllowed_lt(rc) == rc < max_retries

\* `if retry_count <= max_retries: continue`
RetryAllowed(rc) == rc <= max_retries

\* --------------------------------------------------------------- requests
\* extraction_schema: present (a non-empty dict) or None; delay:
\* extraction_schema.get("delay", 1000), in ms
NoSchema == [present |-> FALSE, delay |-> 0]

Requests ==
    [ url : {Seed},
      max_depth : 0..MaxDepthBound,
      max_urls : 0..MaxBudget,
      enable_pagination : BOOLEAN,
      enable_deep_crawl : BOOLEAN,
      extraction_strategy : {"css_selector", "cosine"},
      extraction_schema : {NoSchema} ]

\* ------------------------------------------------------------------ pages
Methods == {"url_parameter", "next_link", "rel_next", "infinite_scroll", "javascript_button"}
patterns_rel_first ==
    <<"rel_next", "url_parameter", "next_link", "infinite_scroll", "javascript_button">>

\* the `patterns` list of detect_pagination, in its order
patterns == <<"url_parameter", "next_link", "rel_next", "infinite_scroll", "javascript_button">>

\* What the parsers read off a fetched page:
\*   matches[m]  hrefs of the elements the selector of method m selects, in
\*               document order (NoUrl: element without href)
\*   numbered    anchors with href whose text is a number: [page, href]
\*   anchors     all <a href>: [href, in_content, parents]; in_content: inside
\*               an element matched by a main-content selector; parents: the
\*               elements around the anchor, nearest first, up to the
\*               document: [region, holds]; region: the element is matched by
\*               a navigation selector; holds: an element below it is

\* an element that is no navigation region and holds none
PlainElement == [region |-> FALSE, holds |-> FALSE]

MkPage(m, h, ls) ==
    [ matches |-> [x \in Methods |-> IF x = m THEN <<h>> ELSE <<>>],
      numbered |-> <<>>,
      anchors |-> [i \in 1..Len(ls) |->
                     [href |-> ls[i], in_content |-> FALSE, parents |-> <<PlainElement>>]] ]

NoHtml == MkPage("none", NoUrl, <<>>)

SeqsUpTo(S, n) == UNION {[1..k -> S] : k \in 0..n}

LinkLists == SeqsUpTo(Urls, MaxLinks)

\* <li class="next"><a rel="next" href=h>: `.pagination .next` selects the
\* <li>, which has no href, and a[rel="next"] selects the anchor
NextItemPage(h) ==
    [MkPage("rel_next", h, <<>>) EXCEPT !.matches["next_link"] = <<NoUrl>>]

\* pages with a malformed href: in the a[rel="next"] anchor (next to a sound
\* content link), or in a second link (next to a sound rel="next" anchor)
BrokenPages ==
    { MkPage("rel_next", BadHref, << <<SeedHost, "/page">> >>),
      MkPage("rel_next", <<SeedHost, "/page">>, << <<SeedHost, "/page">>, BadHref >>) }

\* the pages a fetch of a crawl run can return: no pagination control, an
\* a[rel="next"] with an absolute href, or that anchor inside a .next item
CrawlPages ==
    {MkPage("none", NoUrl, ls) : ls \in LinkLists}
      \cup {MkPage("rel_next", h, ls) : h \in Urls, ls \in LinkLists}
      \cup {NextItemPage(h) : h \in Urls}
      \cup BrokenPages

\* What a selector of the detector can select: nothing; an anchor with a
\* relative href; an element without href followed by an anchor with an
\* absolute href; an anchor with a malformed href
MatchLists ==
    { <<>>, << <<"", "/page">> >>, <<NoUrl, <<OtherHost, "/">> >>, <<BadHref>> }

\* anchors whose text is a number (1: not a later page), with or without an
\* href value
NumberedAnchors ==
    [page : 1..3, href : {<<"", "/page">>}] \cup {[page |-> 2, href |-> NoUrl]}

\* the pages the detector is given on its own: every combination of what
\* the five selectors select, and up to MaxNumbered numbered anchors
DetectPages ==
    { [ matches |-> m, numbered |-> n, anchors |-> <<>> ] :
        m \in [Methods -> MatchLists], n \in SeqsUpTo(NumberedAnchors, MaxNumbered) }

\* ---------------------------------------------------- detect_pagination
FirstMatch(html) ==
    LET hits == {i \in 1..Len(patterns) : html.matches[patterns[i]] # <<>>}
    IN  IF hits = {} THEN 0 ELSE CHOOSE i \in hits : \A j \in hits : i <= j

\* numbered links: digit text > 1, sorted by page (stable), the first one
\* whose page is 2
NumberedNext(html, base_url) ==
    LET twos == {i \in 1..Len(html.numbered) :
                    html.numbered[i].page = 2 /\ html.numbered[i].href # NoUrl}
    IN  IF twos = {} THEN NoUrl
        ELSE urljoin(base_url, html.numbered[CHOOSE i \in twos : \A j \in twos : i <= j].href)

HrefMethods_norel == {"url_parameter", "next_link"}

\* `if method in ['url_parameter', 'next_link', 'rel_next']`
HrefMethods == {"url_parameter", "next_link", "rel_next"}

\* the urljoin calls detect_pagination reaches: the first element of the
\* first matching pattern, else every numbered link
detect_pagination_raises(html) ==
    LET f == FirstMatch(html) IN
    IF f # 0
    THEN /\ patterns[f] \in HrefMethods
         /\ urljoin_raises(html.matches[patterns[f]][1])
    ELSE \E i \in 1..Len(html.numbered) :
            /\ html.numbered[i].page > 1
            /\ urljoin_raises(html.numbered[i].href)

PatternConfidence_fixed(next_url) == 8

\* `"confidence": 0.8 if next_url else 0.6`
PatternConfidence(next_url) == IF next_url # NoUrl THEN 8 ELSE 6

\* confidence is kept in tenths (0.8 -> 8); the `except Exception` branch
\* returns has_pagination False, the error and confidence 0.0
detect_pagination(html, base_url) ==
    LET f == FirstMatch(html) IN
    IF detect_pagination_raises(html) THEN
        [ has_pagination |-> FALSE, pagination_type |-> "None",
          next_page_url |-> NoUrl, elements_found |-> 0, confidence |-> 0,
          error |-> TRUE ]
    ELSE IF f # 0 THEN
        LET method == patterns[f]
            elements == html.matches[method]
            href == IF method \in HrefMethods THEN elements[1] ELSE NoUrl
            next_url == IF href # NoUrl THEN urljoin(base_url, href) ELSE NoUrl
        IN  [ has_pagination |-> TRUE, pagination_type |-> method,
              next_page_url |-> next_url, elements_found |-> Len(elements),
              confidence |-> PatternConfidence(next_url), error |-> FALSE ]
    ELSE IF NumberedNext(html, base_url) # NoUrl THEN
        [ has_pagination |-> TRUE, pagination_type |-> "numbered",
          next_page_url |-> NumberedNext(html, base_url),
          elements_found |-> Cardinality({i \in 1..Len(html.numbered) :
                                 html.numbered[i].page > 1 /\ html.numbered[i].href # NoUrl}),
          confidence |-> 7, error |-> FALSE ]
    ELSE
        [ has_pagination |-> FALSE, pagination_type |-> "none",
          next_page_url |-> NoUrl, elements_found |-> 0, confidence |-> 9,
          error |-> FALSE ]

\* ------------------------------------------------------- link discovery
\* `if absolute_url.startswith('http') and absolute_url not in content_links`
\* with `absolute_url.startswith('http')`: a URL without netloc (file:, raw:)
\* is not an http URL
AppendNew(seq, u) ==
    IF Netloc(u) = "" \/ \E i \in 1..Len(seq) : seq[i] = u THEN seq ELSE Append(seq, u)

\* `for _ in range(3)`
ParentLevels == 3

Min(a, b) == IF a < b THEN a ELSE b

\* the `is_nav` flag of the fallback loop: `parent.select(nav_selector)` is
\* non-empty for one of the first 3 parents, that is, a navigation selector
\* matches an element BELOW that parent
is_nav(a) ==
    \E k \in 1..Min(ParentLevels, Len(a.parents)) : a.parents[k].holds

\* the two link loops: anchors inside content areas (content_only), else
\* the anchors without a navigation hit; hrefs made absolute, no duplicates
RECURSIVE CollectLinks(_, _, _, _)
CollectLinks(anchors, base_url, content_only, acc) ==
    IF anchors = <<>> THEN acc
    ELSE LET a == Head(anchors)
             keep == IF content_only THEN a.in_content ELSE ~is_nav(a)
         IN  CollectLinks(Tail(anchors), base_url, content_only,
                          IF keep THEN AppendNew(acc, urljoin(base_url, a.href)) ELSE acc)

content_links(html, base_url) ==
    LET inside == CollectLinks(html.anchors, base_url, TRUE, <<>>)
    IN  IF inside # <<>> THEN inside
        ELSE CollectLinks(html.anchors, base_url, FALSE, <<>>)

\* the urljoin calls of the two link loops: the anchors inside content
\* areas, and, when those give no link, the anchors without a navigation hit
content_links_raises(html, base_url) ==
    \/ \E i \in 1..Len(html.anchors) :
          html.anchors[i].in_content /\ urljoin_raises(html.anchors[i].href)
    \/ /\ CollectLinks(html.anchors, base_url, TRUE, <<>>) = <<>>
       /\ \E i \in 1..Len(html.anchors) :
             ~is_nav(html.anchors[i]) /\ urljoin_raises(html.anchors[i].href)

DiscoveredLinks_partial(html, base_url) == content_links(html, base_url)

\* the links the deep-crawl block goes on to enqueue: an exception in the
\* link loops leaves the block through `except Exception` before its
\* enqueue loop
DiscoveredLinks(html, base_url) ==
    IF content_links_raises(html, base_url) THEN <<>> ELSE content_links(html, base_url)

PerPageCap == 20

NotCrawled_always(u, crawled) == TRUE

\* `url not in crawled_urls` of the three enqueue guards
NotCrawled(u, crawled) == u \notin crawled

\* `len(crawled_urls) < request.max_urls` of the three enqueue guards
BudgetRemains(crawled, max_urls) == Cardinality(crawled) < max_urls

SameDomain_any(link_domain, base_domain) == TRUE

\* `link_domain == base_domain`
SameDomain(link_domain, base_domain) == link_domain = base_domain

base_domain_none(seed) == ""

\* `base_domain = urlparse(str(request.url)).netloc`, None when urlparse
\* raises; "" stands for both falsy values of `if base_domain:`
base_domain(seed) == IF urljoin_raises(seed) THEN "" ELSE Netloc(seed)

CapReached_gt(extracted_count) == extracted_count > PerPageCap

\* `if extracted_count >= 20: break`
CapReached(extracted_count) == extracted_count >= PerPageCap

\* the loop that appends discovered links at depth + 1
RECURSIVE EnqueueLinks(_, _, _, _, _, _, _)
EnqueueLinks(links, queue, extracted_count, domain, crawled, max_urls, depth1) ==
    IF links = <<>> \/ CapReached(extracted_count) THEN queue
    ELSE LET u == Head(links)
             accept == /\ (domain # "" => SameDomain(Netloc(u), domain))
                       /\ NotCrawled(u, crawled)
                       /\ BudgetRemains(crawled, max_urls)
         IN  IF accept
             THEN EnqueueLinks(Tail(links), Append(queue, <<u, depth1>>),
                               extracted_count + 1, domain, crawled, max_urls, depth1)
             ELSE EnqueueLinks(Tail(links), queue, extracted_count,
                               domain, crawled, max_urls, depth1)

\* the loop that appends the sitemap URLs at depth 1
RECURSIVE EnqueueSitemap(_, _, _, _)
SeedQueue_above(u) == << <<u, -1>> >>

\* `crawl_queue = [(str(request.url), 0)]`
SeedQueue(u) == << <<u, 0>> >>

EnqueueSitemap(sitemap_urls, queue, crawled, max_urls) ==
    IF sitemap_urls = <<>> THEN queue
    ELSE EnqueueSitemap(Tail(sitemap_urls),
                        IF NotCrawled(Head(sitemap_urls), crawled) /\ BudgetRemains(crawled, max_urls)
                        THEN Append(queue, <<Head(sitemap_urls), 1>>) ELSE queue,
                        crawled, max_urls)

SitemapCap == 100
SitemapLists == SeqsUpTo(Urls, MaxSitemap)

\* `urls[:100]`
Truncate(urls) == SubSeq(urls, 1, IF Len(urls) < SitemapCap THEN Len(urls) ELSE SitemapCap)

\* ----------------------------------------------------------- get_crawler
\* crawler_instance: "None", "unstarted" (constructed, __aenter__ did not
\* complete) or "started".  The outcomes of one call: the constructor raises,
\* __aenter__ raises, or the instance is returned.
\* the tasks calling get_crawler at the same time
Callers == 1..MaxCallers

\* no call of get_crawler is being followed
NoCallers ==
    [ pos |-> [c \in Callers |-> "idle"],
      got |-> [c \in Callers |-> 0],
      ready |-> [c \in Callers |-> FALSE],
      constructed |-> 0 ]

IsNone_always(ci) == TRUE

\* `if crawler_instance is None:`
IsNone(ci) == ci = "None"

get_crawler(ci) ==
    IF IsNone(ci)
    THEN { [instance |-> "None", ok |-> FALSE],
           [instance |-> "unstarted", ok |-> FALSE],
           [instance |-> "started", ok |-> TRUE] }
    ELSE { [instance |-> ci, ok |-> TRUE] }

\* ------------------------------------------------------------------ state
VARIABLES
    request,            \* the CrawlRequest of the run
    crawler_instance,   \* the module-level global
    crawled_urls,       \* deep_crawl_stream: set of visited URLs
    crawl_queue,        \* deep_crawl_stream: list of <<url, depth>>
    results_count,      \* deep_crawl_stream
    pagination_chains,  \* deep_crawl_stream: dict url -> set of next URLs
    sitemap_data,       \* deep_crawl_stream: [present, urls]; failed: history,
                        \*   discover_sitemap returned from a failure branch
    events,             \* the events yielded so far
    pc,                 \* position of the generator / of crawl_url
    url, depth,         \* the entry popped by the current loop iteration
    result,             \* the CrawlResponse of the current crawl_url call
    retry_count,        \* crawl_url: local retry counter
    fetch_calls,        \* crawl_url: crawler.arun calls made by the current call
    delays,             \* crawl_url: asyncio.sleep calls made by the current call
    delay_seconds,      \* crawl_url: length of the asyncio.sleep the current call
                        \* performed last, before going on (0: it has not slept)
    all_rate_limited,   \* crawl_url: every pass so far ended in a rate-limited failure result of arun
    last_outcome,       \* crawl_url: [kind, msg] of the latest loop iteration
    dequeued,           \* URLs popped from crawl_queue, in order
    enqueued,           \* every entry appended to crawl_queue, in order, with the
                        \* statement that appended it (origin) and the page being
                        \* processed then (by)
    running,            \* the generator is executing: its consumer awaits __anext__
    consumed,           \* number of events the consumer has taken
    abandoned,          \* the consumer has given the stream up
    other,              \* the frame (locals, position, consumer) of a second run
                        \* of deep_crawl_stream whose task is parked, if there is one
    active,             \* which of the two runs the other variables belong to
    web,                \* the Fetch Client's answers, when they are pinned per URL
    clock,              \* deep_crawl_stream's rate limiting: times since
                        \* last_ai_request_time and since the last return of
                        \* crawl_url, and what the last rate-limit step did
    callers,            \* the tasks that call get_crawler side by side: where
                        \* each one is and what it was handed
    variant             \* the file whose deep_crawl_stream the second run executes

vars == << request, crawler_instance, crawled_urls, crawl_queue, results_count,
           pagination_chains, sitemap_data, events, pc, url, depth, result,
           retry_count, fetch_calls, delays, delay_seconds, all_rate_limited, last_outcome,
           dequeued, enqueued, running, consumed, abandoned, other, active, web,
           clock, callers, variant >>

consumerVars == << running, consumed, abandoned >>

runVars == << crawled_urls, crawl_queue, results_count, pagination_chains,
              sitemap_data, events, url, depth, dequeued, enqueued >>
callVars == << result, retry_count, fetch_calls, delays, delay_seconds, all_rate_limited,
               last_outcome >>

NoError == [text |-> "", retries |-> 0, cause |-> <<>>]
\* pagination_info = None
NoPaginationInfo ==
    [ has_pagination |-> FALSE, pagination_type |-> "None", next_page_url |-> NoUrl,
      elements_found |-> 0, confidence |-> 0, error |-> FALSE ]
NoResult == [success |-> FALSE, url |-> NoUrl, html |-> NoHtml, error |-> NoError,
             pagination_info |-> NoPaginationInfo]
NoOutcome == [kind |-> "none", msg |-> <<>>]

\* CrawlResponse(success=True, ...)
Success(u, html, info) ==
    [success |-> TRUE, url |-> u, html |-> html, error |-> NoError,
     pagination_info |-> info]
\* `if request.enable_pagination: pagination_info = await
\* self.detect_pagination(result.html, str(request.url))`
PaginationInfo(req, html, u) ==
    IF req.enable_pagination THEN detect_pagination(html, u) ELSE NoPaginationInfo
\* CrawlResponse(success=False, url=..., error=f"{text} ... {cause}")
Failure(u, text, n, cause) ==
    [success |-> FALSE, url |-> u, html |-> NoHtml,
     error |-> [text |-> text, retries |-> n, cause |-> cause],
     pagination_info |-> NoPaginationInfo]

\* the entries of queue2 that were appended to queue, as records of enqueued
Added(queue, queue2, origin, by) ==
    [i \in 1..(Len(queue2) - Len(queue)) |->
        [url |-> queue2[Len(queue) + i][1], depth |-> queue2[Len(queue) + i][2],
         origin |-> origin, by |-> by]]

\* the generator goes on executing
Running == running' = TRUE /\ UNCHANGED << consumed, abandoned, other, active, web, callers, variant >>

Continue == Running /\ UNCHANGED clock

RunningAfterYield_buffered == TRUE

\* `yield`: the generator is suspended until the consumer's next __anext__
RunningAfterYield == FALSE

Suspend ==
    /\ running' = RunningAfterYield
    /\ UNCHANGED << consumed, abandoned, other, active, web, clock, callers, variant >>

\* no second run
NoFrame == [pc |-> "none"]
\* the answers are not pinned: every fetch may meet any outcome
Unpinned == [pinned |-> FALSE, pages |-> << >>, sitemap |-> <<>>]

\* ------------------------------------------------------------------ time
\* Times are in ms and kept up to ClockCap, which no delay exceeds.
ClockCap == MaxDelay + 1
Capped(n) == IF n > ClockCap THEN ClockCap ELSE n

\* `last_ai_request_time = 0`: long ago; no call of crawl_url yet
\*   since_request     time.time() - last_ai_request_time
\*   since_completion  time since crawl_url last returned
\*   wait_time         the sleep of the last rate-limit step (0: none)
\*   spacing, gap      since_request and since_completion when the last
\*                     rate-limit step was left, calls: how many were (up to 2)
NoClock ==
    [ since_request |-> ClockCap, since_completion |-> ClockCap, wait_time |-> 0,
      spacing |-> ClockCap, gap |-> ClockCap, calls |-> 0 ]

\* `if request.extraction_strategy == "llm_based" and request.extraction_schema:`
\* and `if delay > 0:`
RateSensitive(req) ==
    /\ req.extraction_strategy = "llm_based"
    /\ req.extraction_schema.present
    /\ req.extraction_schema.delay > 0

\* how long a pass of crawl_url, and the consumer between two events, may
\* take; time is followed only in runs that limit their rate
Durations(req) == IF RateSensitive(req) THEN 0..MaxDuration ELSE {0}
ConsumerTimes(req) == IF RateSensitive(req) THEN 0..1 ELSE {0}

\* t ms go by; completes: crawl_url returns at their end
Elapse(c, req, t, completes) ==
    IF ~RateSensitive(req) THEN c
    ELSE [c EXCEPT !.since_request = Capped(@ + t),
                   !.since_completion = IF completes THEN 0 ELSE Capped(@ + t)]

wait_time_none(delay, time_since_last_request) == 0

\* `if time_since_last_request < delay: wait_time = delay - time_since_last_request`
wait_time(delay, time_since_last_request) ==
    IF time_since_last_request < delay THEN delay - time_since_last_request ELSE 0

\* the rate-limit step before the call of crawl_url: sleep wait_time, then
\* `last_ai_request_time = time.time()`
RateLimit(c, req) ==
    IF ~RateSensitive(req) THEN c
    ELSE LET w == wait_time(req.extraction_schema.delay, c.since_request)
         IN  [ since_request |-> 0,
               since_completion |-> Capped(c.since_completion + w),
               wait_time |-> w,
               spacing |-> Capped(c.since_request + w),
               gap |-> Capped(c.since_completion + w),
               calls |-> IF c.calls < 2 THEN c.calls + 1 ELSE 2 ]

InitCall ==
    /\ result = NoResult
    /\ retry_count = 0
    /\ fetch_calls = 0
    /\ delays = 0
    /\ delay_seconds = 0
    /\ all_rate_limited = TRUE
    /\ last_outcome = NoOutcome

Init ==
    /\ request \in Requests
    /\ crawler_instance = "None"
    /\ crawled_urls = {}
    /\ crawl_queue = SeedQueue(request.url)
    /\ results_count = 0
    /\ pagination_chains = << >>
    /\ sitemap_data = [present |-> FALSE, urls |-> <<>>, failed |-> FALSE]
    /\ events = <<>>
    /\ pc = "start"
    /\ url = NoUrl
    /\ depth = 0
    /\ dequeued = <<>>
    /\ enqueued = Added(<<>>, crawl_queue, "direct", NoUrl)
    /\ running = FALSE
    /\ consumed = 0
    /\ abandoned = FALSE
    /\ other = NoFrame
    /\ active = 1
    /\ web = Unpinned
    /\ clock = NoClock
    /\ callers = NoCallers
    /\ variant = "crawl4ai-service.py"
    /\ InitCall

\* ------------------------------------------------------------- crawl_url
FailureKinds == {"setup_exc", "fetch_exc", "fetch_fail", "process_exc"}

\* str(e) of `request.extraction_schema.get(...)` on a None schema, lower-cased
NoneSchemaMessage == <<"nonetype", "object", "has", "no", "attribute", "get">>

\* What one pass through the try block can meet once the crawler is acquired:
\*   setup_exc    the cosine branch reads extraction_schema, which is None
\*   fetch_exc    crawler.arun raises
\*   fetch_fail   crawler.arun returns a result with success = False
\*   process_exc  arun succeeded and processing its result raises
\*   fetch_ok     arun succeeded and the response is built
Outcomes(req) ==
    IF req.extraction_strategy = "cosine" /\ ~req.extraction_schema.present
    THEN [kind : {"setup_exc"}, msg : {NoneSchemaMessage}, html : {NoHtml}]
    ELSE [kind : {"fetch_exc", "fetch_fail", "process_exc"}, msg : Messages, html : {NoHtml}]
           \cup [kind : {"fetch_ok"}, msg : {<<>>}, html : CrawlPages]

\* what `await crawler.arun(...)` for URL u can meet
Responses(req, u) == IF web.pinned THEN {web.pages[u]} ELSE Outcomes(req)

\* The call was made by the loop of deep_crawl_stream (`await
\* self.crawl_url(crawl_req)`), which has popped its URL from crawl_queue;
\* otherwise crawl_url is observed on its own, as an endpoint calls it.
InRun == dequeued # <<>>

\* The locals of crawl_url after one pass.  When the call returns into the
\* loop of deep_crawl_stream its frame is gone and only the CrawlResponse is
\* left; a call observed on its own keeps them as they were at the return.
SetLocals(returns, rc, fc, dl, sl, arl, lo) ==
    IF returns /\ InRun
    THEN /\ retry_count' = 0
         /\ fetch_calls' = 0
         /\ delays' = 0
         /\ delay_seconds' = 0
         /\ all_rate_limited' = TRUE
         /\ last_outcome' = NoOutcome
    ELSE /\ retry_count' = rc
         /\ fetch_calls' = fc
         /\ delays' = dl
         /\ delay_seconds' = sl
         /\ all_rate_limited' = arl
         /\ last_outcome' = lo

NextRetryCount_same(rc) == rc

\* `retry_count += 1`, in the failure-result path and in the exception path
NextRetryCount(rc) == rc + 1

\* rate-limit check, sleep, retry counter and the two returns of a failed pass
HandleFailure(msg, rl_text, other_text, fc, arl, lo) ==
    IF IsRateLimited(msg)
    THEN LET dl == delays + 1
             sl == DelaySeconds(msg)
             rc == NextRetryCount(retry_count)
         IN  IF RetryAllowed(rc)
             THEN /\ pc' = "crawl_url"
                  /\ result' = NoResult
                  /\ SetLocals(FALSE, rc, fc, dl, sl, arl, lo)
             ELSE /\ pc' = "returned"
                  /\ result' = Failure(url, rl_text, max_retries, msg)
                  /\ SetLocals(TRUE, rc, fc, dl, sl, arl, lo)
    ELSE /\ pc' = "returned"
         /\ result' = Failure(url, other_text, 0, msg)
         /\ SetLocals(TRUE, retry_count, fc, delays, delay_seconds, arl, lo)

InTry_fetch(kind) == kind = "fetch_exc"

\* the `try:` of the loop body spans crawler acquisition, strategy set-up,
\* the fetch and the processing of its result
InTry(kind) == kind \in {"acquire_exc", "setup_exc", "fetch_exc", "process_exc"}

\* an exception outside the `try:` leaves crawl_url
Propagate(fc, lo) ==
    /\ pc' = "raised"
    /\ result' = NoResult
    /\ SetLocals(FALSE, retry_count, fc, delays, delay_seconds, FALSE, lo)

\* one iteration of `while retry_count <= max_retries`
Attempt ==
    /\ pc = "crawl_url"
    /\ running
    /\ IF retry_count > max_retries
       THEN /\ pc' = "returned"
            /\ result' = Failure(url, "Maximum retry attempts exceeded", 0, <<>>)
            /\ SetLocals(TRUE, retry_count, fetch_calls, delays, delay_seconds,
                         all_rate_limited, last_outcome)
            /\ UNCHANGED crawler_instance
       ELSE \E g \in get_crawler(crawler_instance) :
              /\ crawler_instance' = g.instance
              /\ IF ~g.ok
                 THEN \E msg \in Messages :
                        IF InTry("acquire_exc")
                        THEN HandleFailure(msg, "Rate limited after retries due to exception",
                                           "Crawl error", fetch_calls, FALSE,
                                           [kind |-> "acquire_exc", msg |-> msg])
                        ELSE Propagate(fetch_calls, [kind |-> "acquire_exc", msg |-> msg])
                 ELSE \E o \in Responses(request, url) :
                        LET fc == IF o.kind = "setup_exc" THEN fetch_calls
                                  ELSE fetch_calls + 1
                            arl == /\ all_rate_limited
                                   /\ o.kind = "fetch_fail"
                                   /\ IsRateLimited(o.msg)
                            lo == [kind |-> o.kind, msg |-> o.msg]
                        IN  CASE o.kind = "fetch_ok" ->
                                  /\ pc' = "returned"
                                  /\ result' = Success(url, o.html, PaginationInfo(request, o.html, url))
                                  /\ SetLocals(TRUE, retry_count, fc, delays, delay_seconds, arl, lo)
                             [] o.kind = "fetch_fail" ->
                                  HandleFailure(o.msg, "Rate limited after retries",
                                                "Crawl failed", fc, arl, lo)
                             [] OTHER ->
                                  IF InTry(o.kind)
                                  THEN HandleFailure(o.msg,
                                                     "Rate limited after retries due to exception",
                                                     "Crawl error", fc, arl, lo)
                                  ELSE Propagate(fc, lo)
    /\ running' = (pc' # "raised")
    /\ UNCHANGED << consumed, abandoned, other, active, web, callers, variant >>
    /\ \E t \in Durations(request) :
          clock' = Elapse(clock, request, t, pc' = "returned")
    /\ UNCHANGED << request, runVars >>

\* ----------------------------------------------------- deep_crawl_stream
\* discover_sitemap: every failure inside it yields no URLs
SitemapResults(ok) ==
    IF ~ok THEN {<<>>}
    ELSE IF web.pinned THEN {Truncate(web.sitemap)}
    ELSE {Truncate(us) : us \in SitemapLists}

\* whether the fetch of sitemap.xml succeeds, given the crawler was acquired;
\* a pinned web answers with its sitemap (empty: none)
SitemapFetched(ok) ==
    IF ~ok THEN {FALSE} ELSE IF web.pinned THEN {TRUE} ELSE BOOLEAN

DiscoveryRequested_either(req) == req.enable_deep_crawl \/ req.enable_pagination

\* `if request.enable_deep_crawl:` before the sitemap discovery
DiscoveryRequested(req) == req.enable_deep_crawl

\* lines up to `crawler = await self.get_crawler()`
Start ==
    /\ pc = "start"
    /\ running
    /\ Continue
    /\ IF DiscoveryRequested(request)
       THEN \E g \in get_crawler(crawler_instance) :
              /\ crawler_instance' = g.instance
              /\ \E fetched \in SitemapFetched(g.ok) :
                   \E sitemap_urls \in SitemapResults(fetched) :
                     /\ sitemap_data' = [present |-> TRUE, urls |-> sitemap_urls,
                                           failed |-> ~fetched]
                     /\ crawl_queue' = EnqueueSitemap(sitemap_urls, crawl_queue,
                                                      crawled_urls, request.max_urls)
       ELSE UNCHANGED << crawler_instance, sitemap_data, crawl_queue >>
    /\ enqueued' = enqueued \o Added(crawl_queue, crawl_queue', "sitemap", NoUrl)
    /\ pc' = "get_crawler"
    /\ UNCHANGED << request, crawled_urls, results_count, pagination_chains, events,
                    url, depth, dequeued, callVars >>

\* `crawler = await self.get_crawler()`, outside any try
AcquireCrawler ==
    /\ pc = "get_crawler"
    /\ running
    /\ \E g \in get_crawler(crawler_instance) :
         /\ crawler_instance' = g.instance
         /\ pc' = IF g.ok THEN "yield_site_map" ELSE "raised"
         /\ running' = g.ok
    /\ UNCHANGED << consumed, abandoned, other, active, web, clock, callers, variant >>
    /\ UNCHANGED << request, runVars, callVars >>

YieldSiteMap ==
    /\ pc = "yield_site_map"
    /\ running
    /\ Suspend
    /\ events' = Append(events,
                   [type |-> "site_map", base_url |-> request.url,
                    sitemap_available |-> sitemap_data.present /\ Len(sitemap_data.urls) > 0,
                    sitemap_urls_count |-> IF sitemap_data.present
                                           THEN Len(sitemap_data.urls) ELSE 0])
    /\ pc' = "yield_progress0"
    /\ UNCHANGED << request, crawler_instance, crawled_urls, crawl_queue, results_count,
                    pagination_chains, sitemap_data, url, depth, dequeued, enqueued, callVars >>

YieldInitialProgress ==
    /\ pc = "yield_progress0"
    /\ running
    /\ Suspend
    /\ events' = Append(events,
                   [type |-> "progress", completed |-> 0, total |-> Len(crawl_queue),
                    crawled |-> Cardinality(crawled_urls)])
    /\ pc' = "loop"
    /\ UNCHANGED << request, crawler_instance, crawled_urls, crawl_queue, results_count,
                    pagination_chains, sitemap_data, url, depth, dequeued, enqueued, callVars >>

\* the file whose deep_crawl_stream the executing run is in
Variant == IF active = 2 THEN variant ELSE "crawl4ai-service.py"

LoopGuard_le(queue, crawled, max_urls) == queue # <<>> /\ Cardinality(crawled) <= max_urls

\* `while crawl_queue and len(crawled_urls) < request.max_urls`
LoopGuard(queue, crawled, max_urls) == queue # <<>> /\ Cardinality(crawled) < max_urls

AlreadyCrawled_never(u, crawled) == FALSE

\* `url in crawled_urls`
AlreadyCrawled(u, crawled) == u \in crawled

DepthExceeded_off(d, max_depth) == d > max_depth + 1

\* `depth > request.max_depth`
DepthExceeded(d, max_depth) == d > max_depth

MarkVisited_not(crawled, u) == crawled

\* `crawled_urls.add(url)`
MarkVisited(crawled, u) == crawled \cup {u}

pop_last(queue) ==
    [entry |-> queue[Len(queue)], rest |-> SubSeq(queue, 1, Len(queue) - 1)]

\* `url, depth = crawl_queue.pop(0)`
pop(queue) == [entry |-> Head(queue), rest |-> Tail(queue)]

\* pop(0), the skip test, crawled_urls.add and the call of crawl_url
Dequeue ==
    /\ pc = "loop"
    /\ running
    /\ Running
    /\ LoopGuard(crawl_queue, crawled_urls, request.max_urls)
    /\ LET u == pop(crawl_queue).entry[1]
           d == pop(crawl_queue).entry[2]
       IN  /\ crawl_queue' = pop(crawl_queue).rest
           /\ dequeued' = Append(dequeued, u)
           /\ IF AlreadyCrawled(u, crawled_urls) \/ DepthExceeded(d, request.max_depth)
              THEN UNCHANGED << crawled_urls, pc, url, depth, clock >>
              ELSE /\ crawled_urls' = MarkVisited(crawled_urls, u)
                   /\ clock' = IF Variant = "temp_deep_crawl.py" THEN clock
                               ELSE RateLimit(clock, request)
                   /\ url' = u
                   /\ depth' = d
                   /\ pc' = "crawl_url"
    /\ UNCHANGED << request, crawler_instance, results_count, pagination_chains,
                    sitemap_data, events, enqueued, callVars >>

LoopExit ==
    /\ pc = "loop"
    /\ running
    /\ Continue
    /\ ~LoopGuard(crawl_queue, crawled_urls, request.max_urls)
    /\ pc' = "yield_finished"
    /\ UNCHANGED << request, crawler_instance, runVars, callVars >>

Source(d) == IF d = 0 THEN "direct" ELSE IF d = 1 THEN "sitemap" ELSE "deep_crawl"

NextResultsCount_same(n) == n

\* `results_count += 1`
NextResultsCount(n) == n + 1

PcAfterResult_skip == "pagination"

\* the statement that follows `yield {"type": "result", ...}`
PcAfterResult == "yield_progress"

\* crawl_url has returned (its locals are gone): build result_dict, count it,
\* yield the result
YieldResult ==
    /\ pc = "returned"
    /\ running
    /\ Suspend
    /\ results_count' = NextResultsCount(results_count)
    /\ events' = Append(events,
                   [type |-> "result", url |-> result.url, depth |-> depth,
                    source |-> Source(depth), success |-> result.success])
    /\ pc' = PcAfterResult
    /\ retry_count' = 0
    /\ fetch_calls' = 0
    /\ delays' = 0
    /\ delay_seconds' = 0
    /\ all_rate_limited' = TRUE
    /\ last_outcome' = NoOutcome
    /\ UNCHANGED << request, crawler_instance, crawled_urls, crawl_queue,
                    pagination_chains, sitemap_data, url, depth, result, dequeued,
                    enqueued >>

ProgressTotal_waiting(queue, count) == Len(queue)

\* "total": len(crawl_queue) + results_count
ProgressTotal(queue, count) == Len(queue) + count

YieldProgress ==
    /\ pc = "yield_progress"
    /\ running
    /\ Suspend
    /\ events' = Append(events,
                   [type |-> "progress", completed |-> results_count,
                    total |-> ProgressTotal(crawl_queue, results_count),
                    crawled |-> Cardinality(crawled_urls)])
    /\ pc' = "pagination"
    /\ UNCHANGED << request, crawler_instance, crawled_urls, crawl_queue, results_count,
                    pagination_chains, sitemap_data, url, depth, dequeued, enqueued, callVars >>

ChildDepth_same(d) == d

\* `depth + 1` of the entries appended while a page is processed
ChildDepth(d) == d + 1

FollowNext_again(queue, next_url, d) ==
    Append(Append(queue, <<next_url, d + 1>>), <<next_url, d + 1>>)

\* `crawl_queue.append((next_url, depth + 1))`
FollowNext(queue, next_url, d) == Append(queue, <<next_url, ChildDepth(d)>>)

\* pagination_chains.get(key, set())
ChainOf(chains, u) == IF u \in DOMAIN chains THEN chains[u] ELSE {}

\* `if request.enable_pagination and result.success:` block
HandlePagination ==
    /\ pc = "pagination"
    /\ running
    /\ Continue
    /\ LET info == detect_pagination(result.html, url)
           next_url == info.next_page_url
       IN  IF request.enable_pagination /\ result.success
              /\ info.has_pagination /\ next_url # NoUrl
           THEN IF /\ next_url \notin ChainOf(pagination_chains, url)
                   /\ NotCrawled(next_url, crawled_urls)
                   /\ BudgetRemains(crawled_urls, request.max_urls)
                THEN /\ pagination_chains' =
                          [k \in DOMAIN pagination_chains \cup {url} |->
                              IF k = url THEN ChainOf(pagination_chains, url) \cup {next_url}
                              ELSE pagination_chains[k]]
                     /\ crawl_queue' = FollowNext(crawl_queue, next_url, depth)
                ELSE /\ pagination_chains' =
                          [k \in DOMAIN pagination_chains \cup {url} |->
                              ChainOf(pagination_chains, k)]
                     /\ UNCHANGED crawl_queue
           ELSE UNCHANGED << pagination_chains, crawl_queue >>
    /\ enqueued' = enqueued \o Added(crawl_queue, crawl_queue', "pagination", url)
    /\ pc' = "deep"
    /\ UNCHANGED << request, crawler_instance, crawled_urls, results_count,
                    sitemap_data, events, url, depth, dequeued, callVars >>

\* the enqueue loop of temp_deep_crawl.py: the netloc of the link is compared
\* with the netloc of the seed, empty or not; a urlparse that raises makes
\* the `except:` branch accept the link.  The lists of selectors of that file
\* differ; html.anchors[i].in_content and .parents stand for its matches
\* when the run is in it.
RECURSIVE TempEnqueueLinks(_, _, _, _, _, _, _)
TempEnqueueLinks(links, queue, extracted_count, seed, crawled, max_urls, depth1) ==
    IF links = <<>> \/ CapReached(extracted_count) THEN queue
    ELSE LET u == Head(links)
             accept == /\ (~urljoin_raises(seed) => Netloc(u) = Netloc(seed))
                       /\ NotCrawled(u, crawled)
                       /\ BudgetRemains(crawled, max_urls)
         IN  IF accept
             THEN TempEnqueueLinks(Tail(links), Append(queue, <<u, depth1>>),
                                   extracted_count + 1, seed, crawled, max_urls, depth1)
             ELSE TempEnqueueLinks(Tail(links), queue, extracted_count,
                                   seed, crawled, max_urls, depth1)

\* `if request.enable_deep_crawl and depth < request.max_depth and result.success:` block
HandleDeepCrawl ==
    /\ pc = "deep"
    /\ running
    /\ Continue
    /\ IF request.enable_deep_crawl /\ depth < request.max_depth /\ result.success
       THEN crawl_queue' =
              IF Variant = "temp_deep_crawl.py"
              THEN TempEnqueueLinks(DiscoveredLinks(result.html, url), crawl_queue, 0,
                                    request.url, crawled_urls,
                                    request.max_urls, ChildDepth(depth))
              ELSE EnqueueLinks(DiscoveredLinks(result.html, url), crawl_queue, 0,
                                base_domain(request.url), crawled_urls,
                                request.max_urls, ChildDepth(depth))
       ELSE UNCHANGED crawl_queue
    /\ enqueued' = enqueued \o Added(crawl_queue, crawl_queue', "deep_crawl", url)
    /\ result' = NoResult
    /\ pc' = "loop"
    /\ UNCHANGED << request, crawler_instance, crawled_urls, results_count,
                    pagination_chains, sitemap_data, events, url, depth, dequeued,
                    retry_count, fetch_calls, delays, delay_seconds, all_rate_limited, last_outcome >>

FinishedTotal_seen(count, queue) == Len(queue) + count

\* "total": results_count of the finished event
FinishedTotal(count, queue) == count

YieldFinished ==
    /\ pc = "yield_finished"
    /\ running
    /\ Suspend
    /\ events' = Append(events,
                   [type |-> "finished", total |-> FinishedTotal(results_count, crawl_queue)])
    /\ pc' = "done"
    /\ UNCHANGED << request, crawler_instance, crawled_urls, crawl_queue, results_count,
                    pagination_chains, sitemap_data, url, depth, dequeued, enqueued, callVars >>

\* The consumer (`async for event in self.deep_crawl_stream(request)`) takes
\* the event it was handed and asks for the next one; after the last event
\* the request ends the iteration.
Anext ==
    /\ ~running
    /\ ~abandoned
    /\ pc \notin {"done", "raised", "cancelled"} \/ consumed < Len(events)
    /\ consumed' = Len(events)
    /\ running' = (pc \notin {"done", "raised", "cancelled"})
    /\ \E t \in ConsumerTimes(request) : clock' = Elapse(clock, request, t, FALSE)
    /\ UNCHANGED << request, crawler_instance, runVars, callVars, pc, abandoned,
                    other, active, web, callers, variant >>

Next ==
    \/ Anext
    \/ Start
    \/ AcquireCrawler
    \/ YieldSiteMap
    \/ YieldInitialProgress
    \/ Dequeue
    \/ LoopExit
    \/ Attempt
    \/ YieldResult
    \/ YieldProgress
    \/ HandlePagination
    \/ HandleDeepCrawl
    \/ YieldFinished

Spec == Init /\ [][Next]_vars

\* ------------------------------------- a run whose consumer may give up
\* positions where the generator waits on the event loop (sitemap fetch,
\* crawler start-up, crawler.arun, asyncio.sleep): a cancellation of the
\* consumer's task is delivered there
AwaitPoints == {"start", "get_crawler", "crawl_url"}

Cancelled_caught(p) == [pc |-> p, running |-> TRUE]

\* asyncio.CancelledError is not an Exception: none of the `except Exception`
\* handlers of crawl_url and deep_crawl_stream catches it, the generator
\* unwinds
Cancelled(p) == [pc |-> "cancelled", running |-> FALSE]

\* The consumer stops taking events: between two events it just never asks
\* again (the generator stays suspended at its yield); while it waits for
\* the next event its task is cancelled.
Abandon ==
    /\ ~abandoned
    /\ pc \notin {"done", "raised", "cancelled"}
    /\ running => pc \in AwaitPoints
    /\ abandoned' = TRUE
    /\ LET c == IF running THEN Cancelled(pc) ELSE [pc |-> pc, running |-> FALSE]
       IN  pc' = c.pc /\ running' = c.running
    /\ UNCHANGED << request, crawler_instance, runVars, callVars, consumed,
                    other, active, web, clock, callers, variant >>

NextAbandon == Next \/ Abandon

SpecAbandon == Init /\ [][NextAbandon]_vars

\* ------------------------------------------ two runs on one event loop
\* Two calls of deep_crawl_stream with the same request, from two callers,
\* against a web whose answers are the same for both.  The variables hold the
\* frame of the run that is executing; `other` holds the frame of the run
\* whose task is parked.
PinnedOutcomes ==
    { [kind |-> "fetch_fail", msg |-> <<"connection", "refused">>, html |-> NoHtml],
      [kind |-> "fetch_ok", msg |-> <<>>, html |-> MkPage("rel_next", <<SeedHost, "/page">>, <<>>)],
      [kind |-> "fetch_ok", msg |-> <<>>, html |-> MkPage("none", NoUrl, << <<OtherHost, "/">> >>)] }

PinnedWebs ==
    [ pinned : {TRUE},
      pages : [Urls -> PinnedOutcomes],
      sitemap : {<<>>, << <<SeedHost, "/page">> >>} ]

TwoRunRequests ==
    {r \in Requests : /\ r.max_urls > 0
                      /\ r.enable_pagination /\ r.enable_deep_crawl
                      /\ r.extraction_strategy = "css_selector"}

\* the locals of one call of deep_crawl_stream (and of the crawl_url call it
\* is in), its position, and its consumer
Frame ==
    [ request |-> request, crawled_urls |-> crawled_urls, crawl_queue |-> crawl_queue,
      results_count |-> results_count, pagination_chains |-> pagination_chains,
      sitemap_data |-> sitemap_data, events |-> events, pc |-> pc, url |-> url,
      depth |-> depth, result |-> result, retry_count |-> retry_count,
      fetch_calls |-> fetch_calls, delays |-> delays, delay_seconds |-> delay_seconds,
      all_rate_limited |-> all_rate_limited, last_outcome |-> last_outcome,
      dequeued |-> dequeued, enqueued |-> enqueued, running |-> running,
      consumed |-> consumed, abandoned |-> abandoned ]

VisitedOf_shared(frame, current) == current

\* `crawled_urls = set()` is a local of the call: the run that resumes finds
\* its own set
VisitedOf(frame, current) == frame.crawled_urls

InitTwoRuns ==
    /\ request \in TwoRunRequests
    /\ crawler_instance = "started"
    /\ crawled_urls = {}
    /\ crawl_queue = SeedQueue(request.url)
    /\ results_count = 0
    /\ pagination_chains = << >>
    /\ sitemap_data = [present |-> FALSE, urls |-> <<>>, failed |-> FALSE]
    /\ events = <<>>
    /\ pc = "start"
    /\ url = NoUrl
    /\ depth = 0
    /\ dequeued = <<>>
    /\ enqueued = Added(<<>>, crawl_queue, "direct", NoUrl)
    /\ running = FALSE
    /\ consumed = 0
    /\ abandoned = FALSE
    /\ active = 1
    /\ web \in PinnedWebs
    /\ clock = NoClock
    /\ callers = NoCallers
    /\ variant = "crawl4ai-service.py"
    /\ InitCall
    /\ other = Frame

\* The event loop leaves the executing run where its task is parked (at an
\* await that waits, or suspended at a yield) and resumes the other run.
Switch ==
    /\ other.pc # "none"
    /\ ~running \/ pc \in AwaitPoints
    /\ other' = Frame
    /\ active' = 3 - active
    /\ request' = other.request
    /\ crawled_urls' = VisitedOf(other, crawled_urls)
    /\ crawl_queue' = other.crawl_queue
    /\ results_count' = other.results_count
    /\ pagination_chains' = other.pagination_chains
    /\ sitemap_data' = other.sitemap_data
    /\ events' = other.events
    /\ pc' = other.pc
    /\ url' = other.url
    /\ depth' = other.depth
    /\ result' = other.result
    /\ retry_count' = other.retry_count
    /\ fetch_calls' = other.fetch_calls
    /\ delays' = other.delays
    /\ delay_seconds' = other.delay_seconds
    /\ all_rate_limited' = other.all_rate_limited
    /\ last_outcome' = other.last_outcome
    /\ dequeued' = other.dequeued
    /\ enqueued' = other.enqueued
    /\ running' = other.running
    /\ consumed' = other.consumed
    /\ abandoned' = other.abandoned
    /\ UNCHANGED << crawler_instance, web, clock, callers, variant >>

NextTwoRuns == Next \/ Switch

SpecTwoRuns == InitTwoRuns /\ [][NextTwoRuns]_vars

\* -------------------------------------- the same request, run twice
\* A run against a pinned web is drained to its end; the caller then calls
\* deep_crawl_stream again with the same request.  `other` keeps the frame of
\* the first run as it ended.
AgainRequests == {r \in Requests : r.extraction_strategy = "css_selector"}

InitAgain ==
    /\ request \in AgainRequests
    /\ crawler_instance = "started"
    /\ crawled_urls = {}
    /\ crawl_queue = SeedQueue(request.url)
    /\ results_count = 0
    /\ pagination_chains = << >>
    /\ sitemap_data = [present |-> FALSE, urls |-> <<>>, failed |-> FALSE]
    /\ events = <<>>
    /\ pc = "start"
    /\ url = NoUrl
    /\ depth = 0
    /\ dequeued = <<>>
    /\ enqueued = Added(<<>>, crawl_queue, "direct", NoUrl)
    /\ running = FALSE
    /\ consumed = 0
    /\ abandoned = FALSE
    /\ active = 1
    /\ web \in PinnedWebs
    /\ clock = NoClock
    /\ callers = NoCallers
    /\ variant = "crawl4ai-service.py"
    /\ InitCall
    /\ other = NoFrame

FreshVisited_kept(crawled) == crawled

\* `crawled_urls = set()`: the first statement of every call
FreshVisited(crawled) == {}

\* the second call of deep_crawl_stream: its locals are created anew
\* (lines 468-473, 491); the module-level crawler stays as it is
CallAgain ==
    /\ pc = "done"
    /\ other.pc = "none"
    /\ consumed = Len(events)
    /\ other' = Frame
    /\ active' = 2
    /\ crawled_urls' = FreshVisited(crawled_urls)
    /\ crawl_queue' = SeedQueue(request.url)
    /\ results_count' = 0
    /\ pagination_chains' = << >>
    /\ sitemap_data' = [present |-> FALSE, urls |-> <<>>, failed |-> FALSE]
    /\ events' = <<>>
    /\ pc' = "start"
    /\ url' = NoUrl
    /\ depth' = 0
    /\ dequeued' = <<>>
    /\ enqueued' = Added(<<>>, crawl_queue', "direct", NoUrl)
    /\ running' = FALSE
    /\ consumed' = 0
    /\ result' = NoResult
    /\ retry_count' = 0
    /\ fetch_calls' = 0
    /\ delays' = 0
    /\ delay_seconds' = 0
    /\ all_rate_limited' = TRUE
    /\ last_outcome' = NoOutcome
    /\ UNCHANGED << request, crawler_instance, abandoned, web, clock, callers, variant >>

NextAgain == Next \/ CallAgain

SpecAgain == InitAgain /\ [][NextAgain]_vars

\* ------------------------------ a run that follows pagination, driven on
\* enable_pagination = true, max_urls = 5, max_depth >= 1, no deep crawl
FollowRequests ==
    [ url : {Seed},
      max_depth : 1..MaxDepthBound,
      max_urls : {5},
      enable_pagination : {TRUE},
      enable_deep_crawl : {FALSE},
      extraction_strategy : {"css_selector"},
      extraction_schema : {NoSchema} ]

InitFollow ==
    /\ request \in FollowRequests
    /\ crawler_instance = "None"
    /\ crawled_urls = {}
    /\ crawl_queue = SeedQueue(request.url)
    /\ results_count = 0
    /\ pagination_chains = << >>
    /\ sitemap_data = [present |-> FALSE, urls |-> <<>>, failed |-> FALSE]
    /\ events = <<>>
    /\ pc = "start"
    /\ url = NoUrl
    /\ depth = 0
    /\ dequeued = <<>>
    /\ enqueued = Added(<<>>, crawl_queue, "direct", NoUrl)
    /\ running = FALSE
    /\ consumed = 0
    /\ abandoned = FALSE
    /\ other = NoFrame
    /\ active = 1
    /\ web = Unpinned
    /\ clock = NoClock
    /\ callers = NoCallers
    /\ variant = "crawl4ai-service.py"
    /\ InitCall

\* The generator is driven to its end: the caller keeps asking for the next
\* event and every awaited call returns, so a step that can be taken is taken.
SpecFollow == InitFollow /\ [][Next]_vars /\ WF_vars(Next)

\* ----------------------------------------- crawl_url called on its own
\* (the /crawl and /batch-crawl endpoints call crawl_url directly)
InitCrawlUrl ==
    /\ request \in {r \in Requests : r.max_depth = 0 /\ r.max_urls = 1
                                     /\ ~r.enable_pagination /\ ~r.enable_deep_crawl}
    /\ crawler_instance \in {"None", "unstarted", "started"}
    /\ crawled_urls = {}
    /\ crawl_queue = <<>>
    /\ results_count = 0
    /\ pagination_chains = << >>
    /\ sitemap_data = [present |-> FALSE, urls |-> <<>>, failed |-> FALSE]
    /\ events = <<>>
    /\ pc = "crawl_url"
    /\ url = request.url
    /\ depth = 0
    /\ dequeued = <<>>
    /\ enqueued = <<>>
    /\ running = TRUE
    /\ consumed = 0
    /\ abandoned = FALSE
    /\ other = NoFrame
    /\ active = 1
    /\ web = Unpinned
    /\ clock = NoClock
    /\ callers = NoCallers
    /\ variant = "crawl4ai-service.py"
    /\ InitCall

NextCrawlUrl == Attempt

SpecCrawlUrl == InitCrawlUrl /\ [][NextCrawlUrl]_vars

\* ------------------------------- crawl_url with pagination detection
\* crawl_url called with enable_pagination: the fetch succeeds with a page of
\* DetectPages and the response carries the detector's answer for it
InitDetect ==
    /\ request \in {r \in Requests : /\ r.max_depth = 0 /\ r.max_urls = 1
                                     /\ r.enable_pagination /\ ~r.enable_deep_crawl
                                     /\ r.extraction_strategy = "css_selector"}
    /\ crawler_instance = "started"
    /\ crawled_urls = {}
    /\ crawl_queue = <<>>
    /\ results_count = 0
    /\ pagination_chains = << >>
    /\ sitemap_data = [present |-> FALSE, urls |-> <<>>, failed |-> FALSE]
    /\ events = <<>>
    /\ pc = "crawl_url"
    /\ url = request.url
    /\ depth = 0
    /\ dequeued = <<>>
    /\ enqueued = <<>>
    /\ running = TRUE
    /\ consumed = 0
    /\ abandoned = FALSE
    /\ other = NoFrame
    /\ active = 1
    /\ web \in { [pinned |-> TRUE,
                   pages |-> [u \in Urls |-> [kind |-> "fetch_ok", msg |-> <<>>, html |-> p]],
                   sitemap |-> <<>>] : p \in DetectPages }
    /\ clock = NoClock
    /\ callers = NoCallers
    /\ variant = "crawl4ai-service.py"
    /\ InitCall

NextDetect == Attempt

SpecDetect == InitDetect /\ [][NextDetect]_vars

\* ------------------------------------------- a run that limits its rate
\* llm_based extraction with a schema whose delay is 0..MaxDelay, or without
\* a schema; the sitemap and the links of the pages of a pinned web give the
\* later calls
SpacingRequests ==
    [ url : {Seed},
      max_depth : {MaxDepthBound},
      max_urls : {MaxBudget},
      enable_pagination : {FALSE},
      enable_deep_crawl : {TRUE},
      extraction_strategy : {"llm_based"},
      extraction_schema : [present : {TRUE}, delay : 0..MaxDelay] \cup {NoSchema} ]

InitSpacing ==
    /\ request \in SpacingRequests
    /\ crawler_instance = "started"
    /\ crawled_urls = {}
    /\ crawl_queue = SeedQueue(request.url)
    /\ results_count = 0
    /\ pagination_chains = << >>
    /\ sitemap_data = [present |-> FALSE, urls |-> <<>>, failed |-> FALSE]
    /\ events = <<>>
    /\ pc = "start"
    /\ url = NoUrl
    /\ depth = 0
    /\ dequeued = <<>>
    /\ enqueued = Added(<<>>, crawl_queue, "direct", NoUrl)
    /\ running = FALSE
    /\ consumed = 0
    /\ abandoned = FALSE
    /\ other = NoFrame
    /\ active = 1
    /\ web \in PinnedWebs
    /\ clock = NoClock
    /\ callers = NoCallers
    /\ variant = "crawl4ai-service.py"
    /\ InitCall

SpecSpacing == InitSpacing /\ [][Next]_vars

\* ------------------------------------------------- a page of many links
\* The seed's page carries the first n of MaxAnchors distinct links: the
\* second one on another host, the third one the seed itself, the others on
\* the seed's host; every other URL fails to load.  The seed is an http URL
\* or a file URL, whose netloc is empty.
LinkAt(i) ==
    IF i = 2 THEN <<OtherHost, "/">>
    ELSE IF i = 3 THEN Seed
    ELSE <<SeedHost, ToString(i)>>

\* a seed without netloc (file:///page.html)
FileSeed == <<"", "/page.html">>

LinkUrls == Urls \cup {LinkAt(i) : i \in 1..MaxAnchors} \cup {FileSeed}

LinkPage(n) == MkPage("none", NoUrl, [i \in 1..n |-> LinkAt(i)])

LinkWebs ==
    { [pinned |-> TRUE,
       pages |-> [u \in LinkUrls |->
                    IF u \in {Seed, FileSeed} THEN o
                    ELSE [kind |-> "fetch_fail", msg |-> <<"connection", "refused">>,
                          html |-> NoHtml]],
       sitemap |-> <<>>] :
      o \in {[kind |-> "fetch_ok", msg |-> <<>>, html |-> LinkPage(n)] : n \in 0..MaxAnchors}
             \cup {[kind |-> "fetch_fail", msg |-> <<"connection", "refused">>,
                    html |-> NoHtml]} }

LinkRequests ==
    { [r EXCEPT !.url = seed] :
        r \in {q \in Requests : /\ q.max_urls = MaxBudget
                                /\ ~q.enable_pagination
                                /\ q.extraction_strategy = "css_selector"},
        seed \in {Seed, FileSeed} }

InitLinks ==
    /\ request \in LinkRequests
    /\ crawler_instance = "started"
    /\ crawled_urls = {}
    /\ crawl_queue = SeedQueue(request.url)
    /\ results_count = 0
    /\ pagination_chains = << >>
    /\ sitemap_data = [present |-> FALSE, urls |-> <<>>, failed |-> FALSE]
    /\ events = <<>>
    /\ pc = "start"
    /\ url = NoUrl
    /\ depth = 0
    /\ dequeued = <<>>
    /\ enqueued = Added(<<>>, crawl_queue, "direct", NoUrl)
    /\ running = FALSE
    /\ consumed = 0
    /\ abandoned = FALSE
    /\ other = NoFrame
    /\ active = 1
    /\ web \in LinkWebs
    /\ clock = NoClock
    /\ callers = NoCallers
    /\ variant = "crawl4ai-service.py"
    /\ InitCall

SpecLinks == InitLinks /\ [][Next]_vars

\* ------------------------------------------- links and navigation regions
\* The chains of elements around an anchor that a document can have: the
\* last one is the document itself, which no selector matches; an element
\* around a navigation region, or around an element that holds one, holds one.
ParentChains ==
    { c \in UNION {[1..n -> [region : BOOLEAN, holds : BOOLEAN]] : n \in 1..MaxParents} :
        /\ ~c[Len(c)].region
        /\ \A k \in 1..(Len(c) - 1) :
              (c[k].region \/ c[k].holds) => c[k + 1].holds }

NavAnchor(h, c, parents) == [href |-> h, in_content |-> c, parents |-> parents]

NavRegion == [region |-> TRUE, holds |-> FALSE]
Holder == [region |-> FALSE, holds |-> TRUE]

\* pages of one anchor with every chain, and pages of two anchors: without a
\* navigation region (<p><a/></p><p><a/></p>), and with the first anchor in
\* one (<nav><a/></nav><p><a/></p>)
NavPages ==
    { [NoHtml EXCEPT !.anchors = ls] :
        ls \in { <<NavAnchor(<<"", "/page">>, c, parents)>> :
                   c \in BOOLEAN, parents \in ParentChains }
            \cup { <<NavAnchor(h1, FALSE, <<PlainElement, PlainElement>>),
                     NavAnchor(h2, FALSE, <<PlainElement, PlainElement>>)>> :
                   h1 \in {<<"", "/page">>, <<"", "4">>}, h2 \in {<<"", "/page">>} }
            \cup { <<NavAnchor(<<"", "4">>, FALSE, <<NavRegion, Holder>>),
                     NavAnchor(<<"", "/page">>, FALSE, <<PlainElement, Holder>>)>> } }

NavWebs ==
    { [pinned |-> TRUE,
       pages |-> [u \in LinkUrls |->
                    IF u = Seed THEN [kind |-> "fetch_ok", msg |-> <<>>, html |-> h]
                    ELSE [kind |-> "fetch_fail", msg |-> <<"connection", "refused">>,
                          html |-> NoHtml]],
       sitemap |-> <<>>] : h \in NavPages }

InitNav ==
    /\ request \in {r \in LinkRequests : r.url = Seed}
    /\ crawler_instance = "started"
    /\ crawled_urls = {}
    /\ crawl_queue = SeedQueue(request.url)
    /\ results_count = 0
    /\ pagination_chains = << >>
    /\ sitemap_data = [present |-> FALSE, urls |-> <<>>, failed |-> FALSE]
    /\ events = <<>>
    /\ pc = "start"
    /\ url = NoUrl
    /\ depth = 0
    /\ dequeued = <<>>
    /\ enqueued = Added(<<>>, crawl_queue, "direct", NoUrl)
    /\ running = FALSE
    /\ consumed = 0
    /\ abandoned = FALSE
    /\ other = NoFrame
    /\ active = 1
    /\ web \in NavWebs
    /\ clock = NoClock
    /\ callers = NoCallers
    /\ variant = "crawl4ai-service.py"
    /\ InitCall

SpecNav == InitNav /\ [][Next]_vars

\* ------------------------------------------- get_crawler, called by many
\* get_crawler with its await as a place where other tasks run.  The
\* instance in the global is "starting" while its __aenter__ is awaited; the
\* instances are numbered in the order of their construction, and the
\* global holds the latest.
\* From the call to the await of __aenter__, or to the return.
GetCrawler(c) ==
    /\ callers.pos[c] = "idle"
    /\ IF IsNone(crawler_instance)
       THEN \/ /\ crawler_instance' = "starting"
               /\ callers' = [callers EXCEPT !.pos[c] = "aenter",
                                              !.constructed = @ + 1]
            \/ /\ callers' = [callers EXCEPT !.pos[c] = "raised"]   \* AsyncWebCrawler(...) raises
               /\ UNCHANGED crawler_instance
       ELSE /\ callers' = [callers EXCEPT !.pos[c] = "returned",
                                           !.got[c] = callers.constructed,
                                           !.ready[c] = (crawler_instance = "started")]
            /\ UNCHANGED crawler_instance
    /\ UNCHANGED << request, runVars, callVars, pc, consumerVars, other, active, web, clock,
                    variant >>

\* `await crawler_instance.__aenter__()` completes or raises; then
\* `return crawler_instance`
AenterDone(c) ==
    /\ callers.pos[c] = "aenter"
    /\ \/ /\ crawler_instance' = "started"
          /\ callers' = [callers EXCEPT !.pos[c] = "returned",
                                         !.got[c] = callers.constructed,
                                         !.ready[c] = TRUE]
       \/ /\ crawler_instance' = "unstarted"
          /\ callers' = [callers EXCEPT !.pos[c] = "raised"]
    /\ UNCHANGED << request, runVars, callVars, pc, consumerVars, other, active, web, clock,
                    variant >>

\* the task calls get_crawler once more (the next pass of crawl_url, the
\* next request of an endpoint)
CallOnceMore(c) ==
    /\ callers.pos[c] \in {"returned", "raised"}
    /\ callers' = [callers EXCEPT !.pos[c] = "idle", !.got[c] = 0, !.ready[c] = FALSE]
    /\ UNCHANGED << request, crawler_instance, runVars, callVars, pc, consumerVars,
                    other, active, web, clock, variant >>

InitCrawler ==
    /\ request \in {r \in Requests : r.max_depth = 0 /\ r.max_urls = 1
                                     /\ ~r.enable_pagination /\ ~r.enable_deep_crawl
                                     /\ r.extraction_strategy = "css_selector"}
    /\ crawler_instance = "None"
    /\ crawled_urls = {}
    /\ crawl_queue = <<>>
    /\ results_count = 0
    /\ pagination_chains = << >>
    /\ sitemap_data = [present |-> FALSE, urls |-> <<>>, failed |-> FALSE]
    /\ events = <<>>
    /\ pc = "none"
    /\ url = NoUrl
    /\ depth = 0
    /\ dequeued = <<>>
    /\ enqueued = <<>>
    /\ running = FALSE
    /\ consumed = 0
    /\ abandoned = FALSE
    /\ other = NoFrame
    /\ active = 1
    /\ web = Unpinned
    /\ clock = NoClock
    /\ callers = NoCallers
    /\ variant = "crawl4ai-service.py"
    /\ InitCall

NextCrawler ==
    \E c \in Callers : GetCrawler(c) \/ AenterDone(c) \/ CallOnceMore(c)

SpecCrawler == InitCrawler /\ [][NextCrawler]_vars

\* ------------------------------- the two deep_crawl_stream side by side
\* The first run is in deep_crawl_stream of crawl4ai-service.py, the second
\* one in deep_crawl_stream of temp_deep_crawl.py, with the same request and
\* against the same web.  The seed's page has up to 2 links, the second one
\* to another host.
SideWebs ==
    { [pinned |-> TRUE,
       pages |-> [u \in LinkUrls |->
                    IF u \in {Seed, FileSeed}
                    THEN [kind |-> "fetch_ok", msg |-> <<>>, html |-> LinkPage(n)]
                    ELSE [kind |-> "fetch_fail", msg |-> <<"connection", "refused">>,
                          html |-> NoHtml]],
       sitemap |-> <<>>] : n \in 0..2 }

InitSide ==
    /\ request \in LinkRequests
    /\ crawler_instance = "started"
    /\ crawled_urls = {}
    /\ crawl_queue = SeedQueue(request.url)
    /\ results_count = 0
    /\ pagination_chains = << >>
    /\ sitemap_data = [present |-> FALSE, urls |-> <<>>, failed |-> FALSE]
    /\ events = <<>>
    /\ pc = "start"
    /\ url = NoUrl
    /\ depth = 0
    /\ dequeued = <<>>
    /\ enqueued = Added(<<>>, crawl_queue, "direct", NoUrl)
    /\ running = FALSE
    /\ consumed = 0
    /\ abandoned = FALSE
    /\ active = 1
    /\ web \in SideWebs
    /\ clock = NoClock
    /\ callers = NoCallers
    /\ variant = "temp_deep_crawl.py"
    /\ InitCall
    /\ other = Frame

SpecSide == InitSide /\ [][NextTwoRuns]_vars

\* ================================================================ claims
IsResult(e) == e.type = "result"
IsProgress(e) == e.type = "progress"
ResultEvents == SelectSeq(events, IsResult)
ProgressEvents == SelectSeq(events, IsProgress)
Ended == pc \in {"done", "raised"}

\* C1: in a run with max_urls > 0 the visited set never holds more than
\* max_urls URLs and at most max_urls Result events are emitted.
C1_Budget ==
    request.max_urls > 0 =>
        /\ Cardinality(crawled_urls) <= request.max_urls
        /\ Len(ResultEvents) <= request.max_urls

\* the budget is used up while entries still wait in the frontier
C1_BudgetUsedUp ==
    /\ request.max_urls > 0
    /\ Len(ResultEvents) = request.max_urls
    /\ Cardinality(crawled_urls) = request.max_urls
    /\ crawl_queue # <<>>
    /\ pc = "loop"

\* C2: every Result event carries a depth of at most max_depth.
C2_Depth ==
    \A i \in 1..Len(events) :
        events[i].type = "result" => events[i].depth <= request.max_depth

\* a pagination successor of the seed was popped at depth 1 > max_depth = 0
\* and the run ended with the seed's Result only
C2_DeeperEntryPopped ==
    /\ pc = "done"
    /\ request.max_depth = 0
    /\ request.enable_pagination /\ ~request.enable_deep_crawl
    /\ Len(dequeued) = 2
    /\ dequeued[2] # request.url
    /\ Len(ResultEvents) = 1
    /\ ResultEvents[1].depth = 0

\* C3: no two Result events of a run carry the same URL.
C3_NoDuplicateResults ==
    \A i, j \in 1..Len(events) :
        (i < j /\ events[i].type = "result" /\ events[j].type = "result")
            => events[i].url # events[j].url

\* the sitemap lists the seed again, the second copy was popped, and the run
\* went on to a second page found on the seed's page
C3_SeedRediscovered ==
    /\ pc = "done"
    /\ sitemap_data.urls = << request.url >>
    /\ Len(dequeued) >= 3
    /\ dequeued[2] = request.url
    /\ Len(ResultEvents) = 2

\* C4 (as stated): no URL is dequeued from the frontier twice in one run.
C4_NoUrlDequeuedTwice ==
    \A i, j \in 1..Len(dequeued) : i < j => dequeued[i] # dequeued[j]

\* C4 (amended): an entry is appended to the frontier only for a URL that is
\* not in the visited set at that moment (entries already waiting are not
\* consulted), and popping an entry whose URL is already visited changes
\* neither the visited set nor the events and starts no fetch.
C4_EnqueueChecksVisitedOnly ==
    [][ /\ \A i \in (Len(crawl_queue) + 1)..Len(crawl_queue') :
              crawl_queue'[i][1] \notin crawled_urls
        /\ (pc = "loop" /\ Len(dequeued') > Len(dequeued)
              /\ Head(crawl_queue)[1] \in crawled_urls)
             => (pc' = "loop" /\ events' = events /\ crawled_urls' = crawled_urls
                   /\ fetch_calls' = fetch_calls)
      ]_vars

\* a URL waiting twice in the frontier has just been popped for the second
\* time, after its first copy was processed, and the loop goes on
C4_PoppedTwice ==
    /\ pc = "loop"
    /\ crawl_queue # <<>>
    /\ Len(ResultEvents) = 1
    /\ \E i \in 1..Len(dequeued) :
          /\ i < Len(dequeued)
          /\ dequeued[i] = dequeued[Len(dequeued)]
          /\ dequeued[i] \in crawled_urls

\* C5: a run that has ended has emitted a Finished event as its last event.
C5_EndsWithFinished ==
    Ended => (Len(events) > 0 /\ events[Len(events)].type = "finished")

\* C6 (as stated): the events are SiteMap, then Result/Progress pairs, then
\* Finished: a Progress only directly after a Result.
C6_PairsOnly ==
    \A i \in 1..Len(events) :
        /\ (events[i].type = "site_map") <=> (i = 1)
        /\ events[i].type = "progress" => (i > 1 /\ events[i - 1].type = "result")
        /\ (events[i].type = "result" /\ i < Len(events)) => events[i + 1].type = "progress"
        /\ events[i].type = "finished" => i = Len(events)

\* C6 (amended): SiteMap first, then one initial Progress with completed 0,
\* then per processed URL one Result directly followed by one Progress, and
\* Finished, once emitted, is the single last event; the Progress events is
\* then one more than the Result events.
C6_InitialProgressThenPairs ==
    /\ \A i \in 1..Len(events) :
        /\ (events[i].type = "site_map") <=> (i = 1)
        /\ (i = 2) => (events[i].type = "progress" /\ events[i].completed = 0)
        /\ (events[i].type = "progress" /\ i > 2) => events[i - 1].type = "result"
        /\ events[i].type = "result" => (i > 2 /\ events[i - 1].type = "progress")
        /\ (events[i].type = "result" /\ i < Len(events)) => events[i + 1].type = "progress"
        /\ events[i].type = "finished" =>
              (i = Len(events) /\ i > 2 /\ events[i - 1].type = "progress" /\ pc = "done")
    /\ pc = "done" =>
        /\ events[Len(events)].type = "finished"
        /\ Len(ProgressEvents) = Len(ResultEvents) + 1

\* a finished run with two processed URLs: 7 events
C6_TwoPairsFinished ==
    /\ pc = "done"
    /\ Len(events) = 7
    /\ Len(ResultEvents) = 2

\* C7: the completed counts of the Progress events are strictly increasing.
C7_CompletedIncreasing ==
    \A i, j \in 1..Len(events) :
        (i < j /\ events[i].type = "progress" /\ events[j].type = "progress")
            => events[i].completed < events[j].completed

\* three Progress events, the last one after a page that failed
C7_ThreeProgress ==
    /\ Len(ProgressEvents) = 3
    /\ events[Len(events)].type = "progress"
    /\ ~events[Len(events) - 1].success

\* C8: the total of the Finished event is the number of Result events; with
\* max_depth = 0, max_urls = 1, pagination and deep crawl off there is
\* exactly one Result, for the seed, and the total is 1.
C8_FinishedTotal ==
    \A i \in 1..Len(events) :
        events[i].type = "finished" =>
            /\ events[i].total = Len(ResultEvents)
            /\ (request.max_depth = 0 /\ request.max_urls = 1
                  /\ ~request.enable_pagination /\ ~request.enable_deep_crawl)
                 => (/\ Len(ResultEvents) = 1
                     /\ ResultEvents[1].url = request.url
                     /\ events[i].total = 1)

\* Finished after the budget stopped the loop with entries still waiting and
\* with a failed page among the results
C8_FinishedOnBudget ==
    /\ pc = "done"
    /\ crawl_queue # <<>>
    /\ Len(ResultEvents) = request.max_urls
    /\ \E k \in 1..Len(events) : events[k].type = "result" /\ ~events[k].success

\* C9: when every pass of one crawl_url call reached the fetch and the fetch
\* returned a rate-limited failure, the call has made 1 + 3 fetch calls when
\* it returns, and returns a failure naming 3 retries and the last cause.
C9_RetryCap ==
    (pc = "returned" /\ all_rate_limited) =>
        /\ fetch_calls = 1 + 3
        /\ ~result.success
        /\ result.error = [text |-> "Rate limited after retries", retries |-> 3,
                           cause |-> last_outcome.msg]

\* four rate-limited failure results in a row, then the return
C9_FourRateLimited ==
    /\ pc = "returned"
    /\ all_rate_limited
    /\ fetch_calls = 4
    /\ retry_count = 4
    /\ ~result.success

RateLimitWords ==
    { <<"rate", "limit">>, <<"retry", "after">>, <<"too", "many", "requests">>, <<"429">> }

\* C10: a pass whose fetch fails (failure result or exception) with a message
\* containing none of the rate-limit words returns a failure at once: no
\* sleep, no further pass, the fetch called that one time only.
C10_OtherFailureReturns ==
    [][ ( /\ pc = "crawl_url"
          /\ last_outcome'.kind \in {"fetch_fail", "fetch_exc"}
          /\ ~\E kw \in RateLimitWords : Contains(last_outcome'.msg, kw) )
        => ( /\ pc' = "returned"
             /\ ~result'.success
             /\ result'.error.cause = last_outcome'.msg
             /\ delays' = delays
             /\ retry_count' = retry_count
             /\ fetch_calls' = fetch_calls + 1 )
      ]_vars

\* after two rate-limited passes the fetch raises "retry in 3 seconds", which
\* holds none of the words, and the call returns
C10_ReturnedUnretried ==
    /\ pc = "returned"
    /\ last_outcome = [kind |-> "fetch_exc", msg |-> <<"retry", "in", "3", "seconds">>]
    /\ retry_count = 2
    /\ delays = 2
    /\ fetch_calls = 3
    /\ ~result.success

\* the wait a message states as "retry after N seconds" / "retry in N seconds"
C11_EncodedWait(msg) ==
    LET stated == {n \in 0..MaxSeconds :
                     \E w \in {"after", "in"} :
                        Contains(msg, <<"retry", w, ToString(n), "seconds">>)}
    IN  IF stated = {} THEN 1 ELSE CHOOSE n \in stated : TRUE

\* C11: when a pass fails as rate-limited and another pass follows, the call
\* sleeps once more before that pass starts, for at least the wait stated in
\* the failure message (1 second when none is stated); a pass after a
\* rate-limited one whose fetch succeeds began after that sleep and returns
\* success = true without error text and without further sleep.
C11_WaitThenSuccess ==
    [][ /\ ( /\ pc = "crawl_url" /\ pc' = "crawl_url"
             /\ \E kw \in RateLimitWords : Contains(last_outcome'.msg, kw) )
           => ( /\ delays' = delays + 1
                /\ delay_seconds' >= C11_EncodedWait(last_outcome'.msg) )
        /\ ( /\ pc = "crawl_url" /\ retry_count > 0
             /\ last_outcome'.kind = "fetch_ok" )
           => ( /\ pc' = "returned"
                /\ result'.success
                /\ result'.error = NoError
                /\ delays' = delays
                /\ delays = retry_count
                /\ delay_seconds >= C11_EncodedWait(last_outcome.msg) )
      ]_vars

\* the first fetch failed with "rate limit retry after 2 seconds", the second
\* succeeded: success after 2 seconds of sleep
C11_SuccessAfterTwoSeconds ==
    /\ pc = "returned"
    /\ result.success
    /\ result.error = NoError
    /\ retry_count = 1
    /\ fetch_calls = 2
    /\ delays = 1
    /\ delay_seconds = 2

\* entries the pagination block appended while page u was being processed
C12_FollowedFor(u) ==
    {i \in 1..Len(enqueued) : enqueued[i].origin = "pagination" /\ enqueued[i].by = u}

\* C12: with pagination enabled, at most one entry is ever appended to the
\* frontier as the next page of any page u (also when the next link of u
\* points to u itself or closes a cycle), and the run terminates: every loop
\* iteration pops one appended entry, the entries ever appended are bounded
\* through the visited set by max_urls, and the run is never stuck before
\* its end.
C12_FollowedOnce ==
    request.enable_pagination =>
        /\ \A u \in Urls : Cardinality(C12_FollowedFor(u)) <= 1
        /\ \A u \in Urls : C12_FollowedFor(u) # {} => u \in crawled_urls
        /\ Len(dequeued) + Len(crawl_queue) = Len(enqueued)
        /\ Len(enqueued) <= 1 + Len(sitemap_data.urls)
                               + Cardinality(crawled_urls) * (1 + PerPageCap)
        /\ Cardinality(crawled_urls) <= request.max_urls
        /\ (Ended \/ ENABLED Next)

\* the seed's next link led to a second page, whose own next link points back
\* to the seed: nothing is appended for it
C12_CycleClosed ==
    /\ pc = "deep"
    /\ request.enable_pagination
    /\ depth = 1
    /\ url # request.url
    /\ result.success
    /\ detect_pagination(result.html, url).next_page_url = request.url
    /\ \E i \in 1..Len(enqueued) :
          enqueued[i] = [url |-> url, depth |-> 1, origin |-> "pagination", by |-> request.url]
    /\ C12_FollowedFor(url) = {}
    /\ pagination_chains[url] = {}

\* the seed A was fetched successfully and its Result is out; its HTML has an
\* a[rel="next"] pointing to B
C13_SeedHasRelNext(B) ==
    /\ pc = "pagination"
    /\ request.enable_pagination /\ request.max_urls = 5 /\ request.max_depth >= 1
    /\ url = request.url /\ depth = 0
    /\ result.success
    /\ B # url
    /\ \E i \in 1..Len(result.html.matches["rel_next"]) :
          result.html.matches["rel_next"][i] = B

\* a Result for the seed at depth 0, later a Result for B at depth 1
C13_ResultFor(B) ==
    \E i, j \in 1..Len(events) :
        /\ i < j
        /\ events[i].type = "result" /\ events[i].url = request.url /\ events[i].depth = 0
        /\ events[j].type = "result" /\ events[j].url = B /\ events[j].depth = 1

\* C13 (as stated): a rel=next anchor to B on the successfully fetched seed
\* leads to a Result for B at depth 1.
C13_RelNextFollowed ==
    \A B \in Urls : C13_SeedHasRelNext(B) ~> C13_ResultFor(B)

\* C13 (amended): the same when that anchor is the first a[rel="next"] of the
\* page, no element matches the patterns tried before rel_next
\* (a[href*="page="], a.next / .pagination .next), and deep crawl is off.
C13_FirstControlFollowed ==
    \A B \in Urls :
        ( /\ C13_SeedHasRelNext(B)
          /\ ~request.enable_deep_crawl
          /\ result.html.matches["url_parameter"] = <<>>
          /\ result.html.matches["next_link"] = <<>>
          /\ result.html.matches["rel_next"][1] = B )
        ~> C13_ResultFor(B)

\* the run ended after the seed's next page was appended by the pagination
\* block and got its Result at depth 1
C13_NextPageCrawled ==
    /\ pc = "done"
    /\ request.enable_pagination /\ request.max_urls = 5
    /\ \E B \in Urls :
          /\ C13_ResultFor(B)
          /\ \E k \in 1..Len(enqueued) :
                enqueued[k] = [url |-> B, depth |-> 1, origin |-> "pagination",
                               by |-> request.url]

\* C14: the source of a Result is the origin under which the entry it was
\* popped from had been appended (direct, sitemap, pagination, deep_crawl).
\* Right after the Result is yielded the popped entry is the latest one.
C14_SourceIsOrigin ==
    pc = "yield_progress" =>
        events[Len(events)].source = enqueued[Len(dequeued)].origin

\* URLs with a failed Result so far
C15_Failed == {events[i].url : i \in {k \in 1..Len(events) :
                                  events[k].type = "result" /\ ~events[k].success}}

\* C15: when crawl_url returns a failure for the popped URL, the URL is in
\* the visited set (and so counts against max_urls), one Result with
\* success = false is emitted for it, the first for that URL and never
\* followed by another; no entry is ever appended for a URL that has failed;
\* the pagination and link steps of a failed page change neither the
\* frontier nor the registry; and the loop goes on: after the failed page the
\* generator is back at the loop head, where (while it is executing) a
\* waiting entry within the budget can be popped.
C15_FailedPage ==
    [][ /\ (pc = "returned" /\ ~result.success) =>
              /\ url \in crawled_urls
              /\ Cardinality(crawled_urls) <= request.max_urls
              /\ \A i \in 1..Len(events) :
                    events[i].type = "result" => events[i].url # url
              /\ events' = Append(events, events'[Len(events')])
              /\ events'[Len(events')].type = "result"
              /\ events'[Len(events')].url = url
              /\ ~events'[Len(events')].success
        /\ \A i \in (Len(events) + 1)..Len(events') :
              events'[i].type = "result" => events'[i].url \notin C15_Failed
        /\ \A i \in (Len(enqueued) + 1)..Len(enqueued') :
              /\ enqueued'[i].url \notin C15_Failed
              /\ ~(enqueued'[i].url = url /\ ~result.success /\ pc \in {"pagination", "deep"})
        /\ (pc \in {"pagination", "deep"} /\ ~result.success) =>
              /\ crawl_queue' = crawl_queue
              /\ pagination_chains' = pagination_chains
              /\ enqueued' = enqueued
        /\ (pc = "deep" /\ ~result.success) => pc' = "loop"
        /\ (pc = "loop" /\ running
               /\ LoopGuard(crawl_queue, crawled_urls, request.max_urls))
              => ENABLED Dequeue
      ]_vars

\* the seed failed, and the run went on to process a second URL and ended
C15_WentOnAfterFailure ==
    /\ pc = "done"
    /\ Len(ResultEvents) = 2
    /\ ~ResultEvents[1].success
    /\ ResultEvents[1].url = request.url
    /\ ResultEvents[1].url \in crawled_urls
    /\ ResultEvents[2].success

\* what the generator owns: everything but the consumer's variables
genVars == << request, crawler_instance, crawled_urls, crawl_queue, results_count,
              pagination_chains, sitemap_data, events, pc, url, depth, result,
              retry_count, fetch_calls, delays, delay_seconds, all_rate_limited,
              last_outcome, dequeued, enqueued >>

\* C16: at most one event the generator has produced waits for the consumer,
\* and while one waits the generator does nothing: no fetch, no further
\* event, no change of its state, until the consumer has taken it.
C16_OneEventOnDemand ==
    [][ /\ Len(events) - consumed <= 1
        /\ Len(events') - consumed' <= 1
        /\ Len(events) > consumed =>
              /\ UNCHANGED genVars
              /\ consumed' = Len(events)
      ]_vars

\* the Result of the seed has been produced and waits; the generator is
\* suspended before the Progress event
C16_ResultWaiting ==
    /\ pc = "yield_progress"
    /\ ~running
    /\ Len(events) = consumed + 1
    /\ events[Len(events)].type = "result"

\* C17: once the consumer has given the stream up the generator does nothing
\* more: no fetch of a page, no retry pass, no sitemap fetch, no event, and
\* the events produced so far stay as they are; the step that gives it up
\* changes at most the generator's position.
C17_NoWorkAfterAbandon ==
    [][ /\ abandoned => UNCHANGED genVars
        /\ (~abandoned /\ abandoned') =>
              /\ pc' \in {pc, "cancelled"}
              /\ UNCHANGED << request, crawler_instance, crawled_urls, crawl_queue,
                              results_count, pagination_chains, sitemap_data, events,
                              url, depth, result, retry_count, fetch_calls, delays,
                              delay_seconds, all_rate_limited, last_outcome, dequeued,
                              enqueued >>
      ]_vars

\* the consumer gave up while the second page was being fetched: one Result
\* delivered, the second URL visited and never reported
C17_CancelledInFetch ==
    /\ abandoned
    /\ pc = "cancelled"
    /\ Len(ResultEvents) = 1
    /\ consumed = Len(events)
    /\ Cardinality(crawled_urls) = 2

\* C19: after a failed sitemap discovery the frontier holds only the seed,
\* the SiteMap event reports the sitemap unavailable with zero URLs, and the
\* run, once ended, has processed the seed (budget permitting) and has a
\* Finished event as its last event.
C19_FailureIsNoSitemap ==
    sitemap_data.failed =>
        /\ sitemap_data.urls = <<>>
        /\ pc = "get_crawler" => crawl_queue = << <<request.url, 0>> >>
        /\ Len(events) >= 1 =>
              /\ events[1].type = "site_map"
              /\ ~events[1].sitemap_available
              /\ events[1].sitemap_urls_count = 0
        /\ Ended =>
              /\ Len(events) > 0
              /\ events[Len(events)].type = "finished"
              /\ request.max_urls > 0 =>
                    /\ request.url \in crawled_urls
                    /\ Len(ResultEvents) >= 1
                    /\ ResultEvents[1].url = request.url

\* the part of C19 before the second crawler acquisition: what the failed
\* discovery leaves behind, and what a run that got past line 488 reports
C19_UpToAcquisition ==
    sitemap_data.failed =>
        /\ sitemap_data.urls = <<>>
        /\ pc = "get_crawler" => crawl_queue = << <<request.url, 0>> >>
        /\ Len(events) >= 1 =>
              /\ events[1].type = "site_map"
              /\ ~events[1].sitemap_available
              /\ events[1].sitemap_urls_count = 0
        /\ pc = "done" =>
              /\ events[Len(events)].type = "finished"
              /\ request.max_urls > 0 =>
                    /\ request.url \in crawled_urls
                    /\ ResultEvents[1].url = request.url

\* the pagination block is about to run on a page whose detection throws
C20_DetectionFails ==
    /\ pc = "pagination" /\ running
    /\ request.enable_pagination /\ result.success
    /\ detect_pagination_raises(result.html)

\* the deep-crawl block is about to run on a page whose link loops throw
C20_DiscoveryFails ==
    /\ pc = "deep" /\ running
    /\ request.enable_deep_crawl /\ depth < request.max_depth /\ result.success
    /\ content_links_raises(result.html, url)

\* the Result of the page being processed is the event before the last one
\* (its Progress), with success = true
C20_ResultEmitted ==
    /\ Len(events) >= 2
    /\ events[Len(events) - 1].type = "result"
    /\ events[Len(events) - 1].url = url
    /\ events[Len(events) - 1].success

\* C20: when pagination detection throws, the detector's answer is
\* has_pagination = false with confidence 0.0 and the pagination block
\* appends nothing and goes on to the link step; when link discovery throws,
\* the link step appends nothing and goes back to the loop head; in both
\* cases the page's Result stays as emitted (no event is ever changed or
\* removed), the loop head then pops the next entry or leaves the loop, and
\* a run that has emitted a Result cannot end without Finished.
C20_FailureAbsorbed ==
    [][ /\ C20_DetectionFails =>
              /\ ~detect_pagination(result.html, url).has_pagination
              /\ detect_pagination(result.html, url).confidence = 0
              /\ C20_ResultEmitted
              /\ UNCHANGED << crawl_queue, pagination_chains, enqueued, events >>
              /\ pc' = "deep"
        /\ C20_DiscoveryFails =>
              /\ C20_ResultEmitted
              /\ UNCHANGED << crawl_queue, pagination_chains, enqueued, events >>
              /\ pc' = "loop"
        /\ Len(events') >= Len(events)
        /\ SubSeq(events', 1, Len(events)) = events
        /\ (pc = "loop" /\ running) =>
              IF LoopGuard(crawl_queue, crawled_urls, request.max_urls)
              THEN ENABLED Dequeue ELSE ENABLED LoopExit
        /\ Len(ResultEvents) >= 1 =>
              /\ pc' # "raised"
              /\ pc' = "done" => events'[Len(events')].type = "finished"
      ]_vars

\* pagination detection has thrown on the second page and was absorbed: the
\* generator is at the link step, both Results emitted
C20_DetectionAbsorbed ==
    /\ pc = "deep" /\ running
    /\ request.enable_pagination /\ result.success
    /\ detect_pagination_raises(result.html)
    /\ Len(ResultEvents) = 2
    /\ ResultEvents[2].url = url
    /\ ResultEvents[2].success

\* the detector's answer carried by the response of crawl_url
C21_Info == result.pagination_info

\* the case an answer of the detector belongs to
C21_Case(info) ==
    IF info.error THEN "error"
    ELSE IF ~info.has_pagination THEN "absence"
    ELSE IF info.pagination_type = "numbered" THEN "fallback"
    ELSE IF info.next_page_url # NoUrl THEN "resolvable"
    ELSE "unresolvable"

\* one page of each case, against which an answer is compared
C21_References ==
    { [matches |-> [x \in Methods |-> <<>>], numbered |-> <<>>, anchors |-> <<>>],
      [matches |-> [x \in Methods |-> <<>>],
       numbered |-> << [page |-> 2, href |-> <<"", "/page">>] >>, anchors |-> <<>>],
      MkPage("rel_next", <<"", "/page">>, <<>>),
      MkPage("infinite_scroll", NoUrl, <<>>) }

C21_ClaimedRank ==
    [c \in {"resolvable", "unresolvable", "fallback", "absence"} |->
        CASE c = "resolvable" -> 4 [] c = "unresolvable" -> 3
          [] c = "fallback" -> 2 [] OTHER -> 1]

C21_CodeRank ==
    [c \in {"absence", "resolvable", "fallback", "unresolvable", "error"} |->
        CASE c = "absence" -> 5 [] c = "resolvable" -> 4 [] c = "fallback" -> 3
          [] c = "unresolvable" -> 2 [] OTHER -> 1]

\* C21 (as stated): an answer of the detector has a higher confidence than
\* the answer for any page of a later case in the order resolvable next URL,
\* pattern match without next URL, numbered fallback, absence.
C21_ConfidenceOrder ==
    (pc = "returned" /\ result.success /\ ~C21_Info.error) =>
        \A q \in C21_References :
            LET r == detect_pagination(q, url)
            IN  C21_ClaimedRank[C21_Case(C21_Info)] > C21_ClaimedRank[C21_Case(r)]
                    => C21_Info.confidence > r.confidence

\* C21 (amended): the confidences are strictly ordered absence > resolvable
\* next URL > numbered fallback > pattern match without next URL > parse
\* failure: an answer has a higher confidence than the answer for a page of
\* a later case, and the same as the answer for a page of its own case.
C21_ConfidenceByCase ==
    (pc = "returned" /\ result.success) =>
        /\ C21_Info.error => C21_Info.confidence = 0
        /\ \A q \in C21_References :
              LET r == detect_pagination(q, url)
                  mine == C21_CodeRank[C21_Case(C21_Info)]
                  its == C21_CodeRank[C21_Case(r)]
              IN  /\ mine > its => C21_Info.confidence > r.confidence
                  /\ mine = its => C21_Info.confidence = r.confidence
                  /\ mine < its => C21_Info.confidence < r.confidence

\* a pattern matched an element without href on a page that also has a
\* numbered link 2: the answer is a match without next URL, confidence 0.6
C21_MatchWithoutUrl ==
    /\ pc = "returned" /\ result.success
    /\ C21_Case(C21_Info) = "unresolvable"
    /\ C21_Info.confidence = 6
    /\ NumberedNext(result.html, url) # NoUrl

\* the order in which the claim has the patterns tried
C22_Order == <<"url_parameter", "next_link", "rel_next", "infinite_scroll", "javascript_button">>

\* the methods whose selector selects something on the fetched page
C22_Matching == {m \in Methods : result.html.matches[m] # <<>>}

\* the first method of C22_Order that matches
C22_First ==
    C22_Order[CHOOSE i \in 1..5 :
                 /\ C22_Order[i] \in C22_Matching
                 /\ \A j \in 1..(i - 1) : C22_Order[j] \notin C22_Matching]

\* the numbered anchors labelled 2 that have an href value
C22_Twos ==
    {i \in 1..Len(result.html.numbered) :
        result.html.numbered[i].page = 2 /\ result.html.numbered[i].href # NoUrl}

C23_PrefixOfFirst ==
    /\ Len(events) <= Len(other.events)
    /\ \A i \in 1..Len(events) : events[i] = other.events[i]

\* C23: the second call starts from an empty visited set, a frontier holding
\* only the seed and an empty registry; all it has visited, enqueued and
\* registered it has dequeued, appended and registered itself; its events
\* are, one by one, the events of the first run, and at its end it has
\* emitted the same sequence of events and visited the same URLs.
C23_FreshPerCall ==
    active = 2 =>
        /\ pc = "start" =>
              /\ crawled_urls = {}
              /\ crawl_queue = << <<request.url, 0>> >>
              /\ pagination_chains = << >>
        /\ \A u \in crawled_urls : \E i \in 1..Len(dequeued) : dequeued[i] = u
        /\ Len(dequeued) + Len(crawl_queue) = Len(enqueued)
        /\ \A k \in DOMAIN pagination_chains : \A n \in pagination_chains[k] :
              \E i \in 1..Len(enqueued) :
                 enqueued[i].origin = "pagination" /\ enqueued[i].by = k /\ enqueued[i].url = n
        /\ C23_PrefixOfFirst
        /\ pc = "done" =>
              /\ events = other.events
              /\ crawled_urls = other.crawled_urls
              /\ dequeued = other.dequeued
              /\ pagination_chains = other.pagination_chains

\* the second run has ended after two Results, the second for a pagination
\* successor, as the first run did
C23_SecondRunDone ==
    /\ active = 2
    /\ pc = "done"
    /\ Len(ResultEvents) = 2
    /\ \E i \in 1..Len(enqueued) : enqueued[i].origin = "pagination"
    /\ events = other.events

\* C24: the entries are popped in the order in which they were appended (the
\* i-th URL popped is the i-th entry ever appended, and the frontier is the
\* rest of the appended entries, in their order), and the depths of the
\* Result events never decrease.
C24_FifoByDepth ==
    /\ Len(dequeued) <= Len(enqueued)
    /\ \A i \in 1..Len(dequeued) : dequeued[i] = enqueued[i].url
    /\ crawl_queue = [i \in 1..(Len(enqueued) - Len(dequeued)) |->
                        << enqueued[Len(dequeued) + i].url,
                           enqueued[Len(dequeued) + i].depth >>]
    /\ \A i, j \in 1..Len(ResultEvents) :
          i < j => ResultEvents[i].depth <= ResultEvents[j].depth

\* the seed and then a depth-1 page got their Results while a later entry,
\* appended after the sitemap's, was still waiting or skipped
C24_ShallowFirst ==
    /\ pc = "done"
    /\ Len(ResultEvents) = 2
    /\ ResultEvents[1].depth = 0
    /\ ResultEvents[2].depth = 1
    /\ Len(enqueued) >= 3
    /\ enqueued[2].origin = "sitemap"
    /\ enqueued[3].origin # "sitemap"

\* a call of crawl_url, after the first of the run, is about to make its
\* first pass in a run that limits its rate
C25_LaterCallStarts ==
    /\ pc = "crawl_url"
    /\ fetch_calls = 0 /\ retry_count = 0
    /\ RateSensitive(request)
    /\ clock.calls >= 2
    /\ clock.since_request = 0

\* C25 (as stated): a later call starts at least the delay after the
\* completion of the call before it, and the sleep is not negative.
C25_SpacedFromCompletion ==
    C25_LaterCallStarts =>
        /\ clock.gap >= request.extraction_schema.delay
        /\ clock.wait_time >= 0

\* C25 (amended): a later call starts at least the delay after the start of
\* the call before it (the moment last_ai_request_time was set), and the
\* sleep is not negative and not longer than the delay.
C25_SpacedFromStart ==
    C25_LaterCallStarts =>
        /\ clock.spacing >= request.extraction_schema.delay
        /\ clock.wait_time >= 0
        /\ clock.wait_time <= request.extraction_schema.delay

\* the call before took 1 ms of a delay of 2 ms: the step slept the other
\* 1 ms, and the call starts 1 ms after that completion
C25_SleptTheRest ==
    /\ C25_LaterCallStarts
    /\ request.extraction_schema.delay = 2
    /\ clock.wait_time = 1
    /\ clock.spacing = 2
    /\ clock.gap = 1

\* C26: after seeding (the generator is about to acquire the crawler) the
\* frontier is the seed followed by sitemap entries, all at depth 1, and, in
\* a run with a budget, it holds at most max_urls entries.
C26_SeedingWithinBudget ==
    pc = "get_crawler" =>
        /\ crawl_queue[1] = <<request.url, 0>>
        /\ \A i \in 2..Len(crawl_queue) :
              /\ crawl_queue[i][2] = 1
              /\ enqueued[i].origin = "sitemap"
        /\ request.max_urls > 0 => Len(crawl_queue) <= request.max_urls

\* the part of C26 that holds: the seed, then the URLs of the sitemap, in
\* its order, each at depth 1
C26_SeedingAtDepthOne ==
    pc = "get_crawler" =>
        /\ crawl_queue[1] = <<request.url, 0>>
        /\ Len(crawl_queue) <= 1 + Len(sitemap_data.urls)
        /\ \A i \in 2..Len(crawl_queue) :
              /\ crawl_queue[i] = <<sitemap_data.urls[i - 1], 1>>
              /\ enqueued[i].origin = "sitemap"

\* C27 (as stated): after the seeding step of a run with pagination-following
\* or deep-crawl enabled, sitemap discovery has been performed and the URLs
\* it found are in the frontier.
C27_DiscoveryForEither ==
    (pc = "get_crawler" /\ (request.enable_pagination \/ request.enable_deep_crawl)) =>
        /\ sitemap_data.present
        /\ request.max_urls > 0 => Len(crawl_queue) = 1 + Len(sitemap_data.urls)

\* C27 (amended): sitemap discovery is performed exactly when deep-crawl is
\* enabled, whatever pagination-following is; when it is, the URLs it found
\* are appended after the seed (given a positive budget); when it is not,
\* the frontier is the seed alone and the SiteMap event reports no sitemap.
C27_DiscoveryForDeepCrawl ==
    /\ pc \notin {"start"} => (sitemap_data.present <=> request.enable_deep_crawl)
    /\ pc = "get_crawler" =>
          IF request.enable_deep_crawl /\ request.max_urls > 0
          THEN crawl_queue = << <<request.url, 0>> >> \o
                                [i \in 1..Len(sitemap_data.urls) |-> <<sitemap_data.urls[i], 1>>]
          ELSE crawl_queue = << <<request.url, 0>> >>
    /\ (Len(events) >= 1 /\ ~request.enable_deep_crawl) =>
          /\ ~events[1].sitemap_available
          /\ events[1].sitemap_urls_count = 0

\* deep-crawl enabled, pagination-following not: the URL of the sitemap was
\* appended after the seed
C27_SitemapSeeded ==
    /\ pc = "get_crawler"
    /\ request.enable_deep_crawl /\ ~request.enable_pagination
    /\ Len(sitemap_data.urls) = 1
    /\ crawl_queue = << <<request.url, 0>>, <<sitemap_data.urls[1], 1>> >>

\* a link the enqueue loop accepts: on the seed's host (if the seed has
\* one), not visited, and the budget not used up
C28_Accepted(u) ==
    /\ Netloc(request.url) # "" => Netloc(u) = Netloc(request.url)
    /\ u \notin crawled_urls
    /\ Cardinality(crawled_urls) < request.max_urls

\* C28: the link step of a page appends at most 20 entries, each at the
\* page's depth + 1; it appends any only with deep-crawl enabled, the fetch
\* successful and the depth below max_depth; and what it appends are the
\* first 20 accepted links of the page, in the page's order: links rejected
\* for origin, visitedness or budget are passed over without being counted.
C28_PerPageCap ==
    [][ (pc = "deep" /\ pc' = "loop") =>
          LET n == Len(enqueued') - Len(enqueued)
              accepted == SelectSeq(content_links(result.html, url), C28_Accepted)
          IN  /\ n >= 0 /\ n <= 20
              /\ Len(crawl_queue') = Len(crawl_queue) + n
              /\ \A i \in 1..n :
                    /\ enqueued'[Len(enqueued) + i].depth = depth + 1
                    /\ enqueued'[Len(enqueued) + i].origin = "deep_crawl"
                    /\ enqueued'[Len(enqueued) + i].url = accepted[i]
                    /\ crawl_queue'[Len(crawl_queue) + i] = <<accepted[i], depth + 1>>
              /\ n > 0 => /\ request.enable_deep_crawl
                          /\ result.success
                          /\ depth < request.max_depth
              /\ (request.enable_deep_crawl /\ result.success /\ depth < request.max_depth
                     /\ ~content_links_raises(result.html, url))
                    => n = (IF Len(accepted) < 20 THEN Len(accepted) ELSE 20)
      ]_vars

\* the seed's page had 23 links, two of them rejected: 20 were appended, the
\* 21st accepted one was not
C28_TwentyOfMore ==
    /\ pc = "loop"
    /\ request.url = Seed
    /\ Len(web.pages[request.url].html.anchors) = 23
    /\ Len(enqueued) = 21
    /\ enqueued[21].origin = "deep_crawl"
    /\ enqueued[21].url = LinkAt(22)

\* the entries appended by link discovery
C29_Discovered == SelectSeq(enqueued, LAMBDA e : e.origin = "deep_crawl")

\* C29: with a seed whose netloc is known every entry appended by link
\* discovery has the seed's netloc; with a seed without netloc the link step
\* appends the discovered http links whatever their netloc (those not
\* visited, within budget and cap), the ones on other hosts included.
C29_SameOriginOrAll ==
    [][ /\ Netloc(request.url) # "" =>
              \A i \in 1..Len(enqueued') :
                  enqueued'[i].origin = "deep_crawl"
                      => Netloc(enqueued'[i].url) = Netloc(request.url)
        /\ (pc = "deep" /\ pc' = "loop" /\ Netloc(request.url) = ""
               /\ request.enable_deep_crawl /\ result.success
               /\ depth < request.max_depth
               /\ ~content_links_raises(result.html, url)) =>
              \A k \in 1..Len(result.html.anchors) :
                  LET u == result.html.anchors[k].href
                  IN  (k <= 20 /\ Netloc(u) # "" /\ u \notin crawled_urls
                         /\ Cardinality(crawled_urls) < request.max_urls)
                        => \E i \in (Len(enqueued) + 1)..Len(enqueued') :
                              enqueued'[i].url = u /\ enqueued'[i].origin = "deep_crawl"
      ]_vars

\* a page loaded from a file URL: its link to another host was appended
C29_OtherHostAccepted ==
    /\ Netloc(request.url) = ""
    /\ \E i \in 1..Len(enqueued) :
          /\ enqueued[i].origin = "deep_crawl"
          /\ enqueued[i].url = <<OtherHost, "/">>
    /\ \E i \in 1..Len(enqueued) :
          /\ enqueued[i].origin = "deep_crawl"
          /\ Netloc(enqueued[i].url) = SeedHost

\* C30: an entry appended while a page of depth d is processed has depth
\* d + 1; no entry of the frontier is deeper than max_depth + 1; and the
\* dequeue of an entry deeper than max_depth fetches nothing, marks nothing
\* visited and emits no event.
C30_DepthDiscipline ==
    [][ /\ \A i \in (Len(enqueued) + 1)..Len(enqueued') :
              enqueued'[i].origin \in {"pagination", "deep_crawl"}
                  => enqueued'[i].depth = depth + 1
        /\ \A i \in 1..Len(crawl_queue') :
              crawl_queue'[i][2] <= request.max_depth + 1
        /\ (pc = "loop" /\ Len(dequeued') = Len(dequeued) + 1
               /\ Head(crawl_queue)[2] > request.max_depth) =>
              /\ pc' = "loop"
              /\ UNCHANGED << crawled_urls, events, fetch_calls, results_count >>
      ]_vars

\* the frontier is used up, and an entry one level below max_depth, appended
\* for a page of depth max_depth, was taken from it and never visited
C30_TooDeepRejected ==
    /\ crawl_queue = <<>>
    /\ Len(dequeued) = Len(enqueued)
    /\ \E i \in 1..Len(enqueued) :
          /\ enqueued[i].origin = "pagination"
          /\ enqueued[i].depth = request.max_depth + 1
          /\ enqueued[i].url \notin crawled_urls
          /\ \A k \in 1..Len(events) :
                events[k].type = "result" => events[k].url # enqueued[i].url

\* one of the 3 nearest parents of the anchor is a navigation region
C31_InRegion(a) ==
    \E k \in 1..Min(ParentLevels, Len(a.parents)) : a.parents[k].region

\* the links the fallback is said to return: the http links of the anchors
\* none of whose 3 nearest parents is a navigation region, each once, in
\* document order
RECURSIVE C31_Links(_, _, _)
C31_Links(anchors, base_url, acc) ==
    IF anchors = <<>> THEN acc
    ELSE LET a == Head(anchors)
             u == urljoin(base_url, a.href)
         IN  C31_Links(Tail(anchors), base_url,
                       IF C31_InRegion(a) \/ Netloc(u) = ""
                          \/ \E i \in 1..Len(acc) : acc[i] = u
                       THEN acc ELSE Append(acc, u))

\* C31: with no anchor inside a content area, the link step enqueues from
\* the page's http links outside navigation regions (an anchor is left out
\* exactly when one of its 3 nearest parents is such a region), each once
\* and in document order.
C31_FallbackOutsideRegions ==
    [][ (pc = "deep" /\ pc' = "loop" /\ request.enable_deep_crawl /\ result.success
           /\ depth < request.max_depth
           /\ \A i \in 1..Len(result.html.anchors) : ~result.html.anchors[i].in_content)
        => crawl_queue' =
             EnqueueLinks(C31_Links(result.html.anchors, url, <<>>), crawl_queue, 0,
                          base_domain(request.url), crawled_urls, request.max_urls,
                          depth + 1)
      ]_vars

\* C32: whatever the passes of one crawl_url call meet (rate-limited failure
\* results, rate-limited exceptions, other failures, success), the call makes
\* at most 1 + 3 fetch calls: each pass that is followed by another one adds
\* one to the call's retry counter, on the failure-result path and on the
\* exception path alike, and never more fetches were made than that counter
\* plus the fetch of the current pass.
C32_FetchCap ==
    [][ /\ fetch_calls' <= 1 + 3
        /\ fetch_calls' <= retry_count + 1
        /\ (pc = "crawl_url" /\ pc' = "crawl_url") =>
              /\ retry_count' = retry_count + 1
              /\ retry_count' <= 3
              /\ last_outcome'.kind \in {"fetch_fail", "fetch_exc", "process_exc", "acquire_exc"}
      ]_vars

\* four fetches in one call, rate-limited through an exception as well as
\* through failure results
C32_MixedPaths ==
    /\ pc = "returned"
    /\ fetch_calls = 4
    /\ retry_count = 4
    /\ ~all_rate_limited
    /\ last_outcome.kind = "fetch_fail"
    /\ ~result.success

\* C33: in crawl_url a sleep is followed by another pass of the retry loop.
C33_DelayThenAttempt ==
    [][ delays' = delays + 1 => pc' = "crawl_url" ]_vars

\* C34: a pass of crawl_url ends in another pass, with the retry counter
\* raised, or in the return of a CrawlResponse for the requested URL, never
\* in an exception leaving the call, whether crawler acquisition, strategy
\* set-up, the fetch or the processing of the result raised; the response
\* of a call whose last pass did not fetch the page has success = false and
\* a non-empty error text.
C34_AlwaysAResponse ==
    [][ pc = "crawl_url" =>
          /\ pc' \in {"crawl_url", "returned"}
          /\ pc' = "crawl_url" => retry_count' = retry_count + 1
          /\ pc' = "returned" =>
                /\ result'.url = url
                /\ result'.success = (last_outcome'.kind = "fetch_ok")
                /\ ~result'.success => result'.error.text # ""
      ]_vars

\* the fetch succeeded and the processing of its result raised: a failure
\* response with the text of the exception branch
C34_ProcessingFailed ==
    /\ pc = "returned"
    /\ last_outcome.kind = "process_exc"
    /\ ~result.success
    /\ result.error.text = "Crawl error"

C36_StartedWhenReturned ==
    \A c \in Callers : callers.pos[c] = "returned" => callers.ready[c]

\* C37: every URL a Result is emitted for has the netloc of the seed.
C37_ResultsOnSeedOrigin ==
    \A k \in 1..Len(events) :
        events[k].type = "result" => Netloc(events[k].url) = Netloc(request.url)

\* C37, as the code has it: a URL a Result is emitted for has the netloc of
\* the seed unless it was appended to the frontier as a sitemap entry or as
\* a pagination successor; only the page links of the deep-crawl step are
\* held to the seed's netloc.
C37_LinksOnSeedOrigin ==
    \A k \in 1..Len(events) :
        events[k].type = "result" =>
            \/ Netloc(events[k].url) = Netloc(request.url)
            \/ \E i \in 1..Len(enqueued) :
                  /\ enqueued[i].url = events[k].url
                  /\ enqueued[i].origin \in {"sitemap", "pagination"}

\* a Result for a page of another host that was reached as the next page of
\* the seed, in a run that also enqueues page links
C37_OtherHostByPagination ==
    /\ request.enable_deep_crawl
    /\ request.max_depth > 0
    /\ \E k \in 1..Len(events) :
          /\ events[k].type = "result"
          /\ Netloc(events[k].url) = OtherHost
          /\ \E i \in 1..Len(enqueued) :
                /\ enqueued[i].url = events[k].url
                /\ enqueued[i].origin = "pagination"
    /\ \E i \in 1..Len(enqueued) : enqueued[i].origin = "deep_crawl"

\* C38: in a run with pagination on and deep crawl off no Result is deeper
\* than max_depth, the next page of a page of depth max_depth enters the
\* frontier at depth max_depth + 1 and is not visited, and there are at most
\* max_depth + 1 Results.
C38_ChainBoundedByDepth ==
    (request.enable_pagination /\ ~request.enable_deep_crawl) =>
        /\ Len(ResultEvents) <= request.max_depth + 1
        /\ \A k \in 1..Len(events) :
              events[k].type = "result" => events[k].depth <= request.max_depth
        /\ \A i \in 1..Len(enqueued) :
              /\ enqueued[i].origin \in {"direct", "pagination"}
              /\ enqueued[i].depth <= request.max_depth + 1
              /\ enqueued[i].depth = request.max_depth + 1
                    => \/ enqueued[i].url \notin crawled_urls
                       \/ \E j \in 1..(i - 1) : enqueued[j].url = enqueued[i].url

\* the chain goes on, the budget is not used up, and the run has ended with
\* max_depth + 1 Results: the next page at depth max_depth + 1 was dropped
C38_ChainCutByDepth ==
    /\ request.enable_pagination /\ ~request.enable_deep_crawl
    /\ pc = "done"
    /\ Len(ResultEvents) = request.max_depth + 1
    /\ Len(ResultEvents) < request.max_urls
    /\ \E i \in 1..Len(enqueued) :
          /\ enqueued[i].origin = "pagination"
          /\ enqueued[i].depth = request.max_depth + 1
          /\ enqueued[i].url \notin crawled_urls

\* the two runs are at the same place
C39_InStep ==
    /\ other.pc = pc
    /\ Len(other.dequeued) = Len(dequeued)
    /\ Len(other.events) = Len(events)

\* C39: the run in temp_deep_crawl.py and the run in crawl4ai-service.py,
\* when at the same place, have the same frontier, the same visited set and
\* the same events so far, and the events of the run behind are the first
\* events of the run ahead.
C39_SameRuns ==
    /\ C39_InStep =>
          /\ other.crawl_queue = crawl_queue
          /\ other.crawled_urls = crawled_urls
          /\ other.events = events
    /\ \A i \in 1..Len(events) : i <= Len(other.events) => other.events[i] = events[i]

\* the same, for seeds with a netloc
C39_SameRunsWithNetloc == Netloc(request.url) # "" => C39_SameRuns

\* C40: a Progress event, when it is emitted, carries as completed the size
\* of the visited set, which it also carries as crawled, and as total
\* completed plus the length of the frontier; so total >= completed in
\* every Progress event.
C40_ProgressCounts ==
    [][ /\ (Len(events') = Len(events) + 1 /\ events'[Len(events')].type = "progress") =>
              LET e == events'[Len(events')]
              IN  /\ e.completed = Cardinality(crawled_urls')
                  /\ e.crawled = Cardinality(crawled_urls')
                  /\ e.total = e.completed + Len(crawl_queue')
        /\ \A k \in 1..Len(events') :
              events'[k].type = "progress" =>
                  /\ events'[k].completed = events'[k].crawled
                  /\ events'[k].total >= events'[k].completed
      ]_vars

\* a Progress event after the second page, a failed one, with an entry still
\* waiting
C40_TwoDoneOneWaiting ==
    /\ pc = "pagination"
    /\ events[Len(events)].type = "progress"
    /\ events[Len(events)].completed = 2
    /\ events[Len(events)].total = 3
    /\ Cardinality(crawled_urls) = 2
    /\ Len(crawl_queue) = 1
    /\ ~result.success

\* the Result events of the parked run
C18_OtherResults == SelectSeq(other.events, IsResult)

\* C18: of two interleaved runs, a step of the executing run leaves the
\* parked run's frame (visited set, frontier, registry, events, position) as
\* it is, and a switch hands each run back exactly the frame it was parked
\* with; the two runs, given the same request and the same answers of the
\* web, report the same Results in the same order: at any moment the Results
\* of one are a prefix of the other's, and two runs that have ended have the
\* same Results.
C18_RunsIsolated ==
    [][ /\ active' = active => other' = other
        /\ active' # active =>
              /\ crawled_urls' = other.crawled_urls
              /\ crawl_queue' = other.crawl_queue
              /\ pagination_chains' = other.pagination_chains
              /\ events' = other.events
              /\ other'.crawled_urls = crawled_urls
              /\ other'.crawl_queue = crawl_queue
              /\ other'.pagination_chains = pagination_chains
              /\ other'.events = events
        /\ \A i \in 1..Len(ResultEvents) :
              i <= Len(C18_OtherResults) => ResultEvents[i] = C18_OtherResults[i]
        /\ (pc = "done" /\ other.pc = "done") => ResultEvents = C18_OtherResults
      ]_vars

\* both runs have ended with two Results each, the first run having been
\* parked in its first fetch while the second ran up to its own first fetch
C18_BothDone ==
    /\ pc = "done" /\ other.pc = "done"
    /\ Len(ResultEvents) = 2
    /\ Len(C18_OtherResults) = 2
    /\ crawled_urls = other.crawled_urls

====
